---- MODULE Spec2Model ----
(***************************************************************************)
(* A model of report_todo: the matcher (TodoError::from_line), the comment *)
(* scope tracker (CommentScopeStack) and the unified diff parser           *)
(* (UnifiedDiffParser) with the DiffScoped loop that drives it.            *)
(*                                                                         *)
(* Text is modelled as a sequence of one-character strings; an offset is a *)
(* 0-based index as in Rust, so the slice s[a..b] is SubSeq(s, a + 1, b).  *)
(* The three components share no state; each has its own specification     *)
(* (SpecMatcher, SpecTracker, SpecDiff) that leaves the others' variables  *)
(* at their initial values.                                                *)
(***************************************************************************)
EXTENDS Integers, Sequences, FiniteSets, TLC

VARIABLES
    \* ---- matcher: one call of TodoError::from_line
    config,                 \* the Regexes passed in
    line,                   \* the line of text
    row,                    \* the row passed in
    from_line,              \* None before the call, else its outcome
    \* ---- tracker: CommentScopeStack and the call in progress
    current_comment_start,
    comment_level,
    scopes_stack,
    cleared_scopes_stack,
    original_line,          \* [start, len] of the line of the call in progress
    op,                     \* the (offset, ScopeStackOp) pair processed last
    comments,               \* the local Vec of process_ops_for_line
    tracker_panicked,
    \* ---- diff: UnifiedDiffParser and GitDiffChecker::process_spans
    pc,                     \* where process_spans / the parser stands
    lines,                  \* the Peekable<Lines> over the diff text
    current_file,
    current_patch_remove,   \* the removed range (the local of read_hunk)
    current_patch_add,      \* the added range (the local of read_hunk)
    hunk,                   \* the Hunk read_hunk builds and returns
    hunk_source,            \* the diff lines the current read_hunk has taken
    todo_errors,
    run_result,             \* None while process_spans runs, else its outcome
    \* ---- the commands GitDiffChecker::process_spans runs before it parses
    commands,               \* the command lines issued so far, in order
    remote,
    remote_ref,
    fork_point,
    diff,
    \* ---- tree scans: the parallel walk of the two source tree checkers
    num_threads,            \* None before it is computed, else the pool size or the panic
    tree,                   \* the entries the walk yields
    walk_queue,             \* the entries no worker has taken yet
    workers,                \* per walker thread: where its closure stands
    mutex,                  \* the Mutex around the shared Vec<TodoError>
    shared_todo_errors,     \* the Vec<TodoError> inside the mutex
    diagnostics,            \* what the scan has logged
    walk_result,            \* None while process_spans runs, else its outcome
    \* ---- the sequential scan of main
    report_kind,
    next_entry,             \* the index in tree of the entry the loop is at
    file_scan,              \* None between files, else the line and tracker of the file
    has_untracked,
    issues_found_count,
    stderr,                 \* the findings written so far
    main_result             \* None while the scan runs, else what it returns

matcher_vars == <<config, line, row, from_line>>
tracker_vars == <<current_comment_start, comment_level, scopes_stack, cleared_scopes_stack,
                  original_line, op, comments, tracker_panicked>>
diff_vars == <<pc, lines, current_file, current_patch_remove, current_patch_add,
               hunk, hunk_source, todo_errors, run_result>>
command_vars == <<commands, remote, remote_ref, fork_point, diff>>
walk_vars == <<num_threads, tree, walk_queue, workers, mutex, shared_todo_errors, diagnostics, walk_result>>
main_vars == <<report_kind, next_entry, file_scan, has_untracked, issues_found_count, stderr, main_result>>
scan_vars == <<command_vars, walk_vars, main_vars>>
vars == <<matcher_vars, tracker_vars, diff_vars, scan_vars>>

\* Option<T>: None, or Some(x) holding x
None == <<>>
Some(x) == <<x>>
Unwrap(o) == o[1]

\* ------------------------------------------------------------------------
\* Text helpers (Rust str operations)
\* ------------------------------------------------------------------------

LowerLetters == <<"a","b","c","d","e","f","g","h","i","j","k","l","m",
                  "n","o","p","q","r","s","t","u","v","w","x","y","z">>
UpperLetters == <<"A","B","C","D","E","F","G","H","I","J","K","L","M",
                  "N","O","P","Q","R","S","T","U","V","W","X","Y","Z">>
Digits == {"0","1","2","3","4","5","6","7","8","9"}

Range(s) == {s[i] : i \in DOMAIN s}

IsDigit(c) == c \in Digits
IsWhitespace(c) == c \in {" ", "\t", "\n", "\r"}
\* regex \w
IsWordChar(c) == c \in Range(LowerLetters) \cup Range(UpperLetters) \cup Digits \cup {"_"}

\* char::to_uppercase / to_lowercase on ASCII
CharToUpper(c) ==
    IF \E i \in DOMAIN LowerLetters : LowerLetters[i] = c
    THEN UpperLetters[CHOOSE i \in DOMAIN LowerLetters : LowerLetters[i] = c]
    ELSE c
CharToLower(c) ==
    IF \E i \in DOMAIN UpperLetters : UpperLetters[i] = c
    THEN LowerLetters[CHOOSE i \in DOMAIN UpperLetters : UpperLetters[i] = c]
    ELSE c

\* str::to_uppercase
ToUppercase(s) == [i \in DOMAIN s |-> CharToUpper(s[i])]

\* s[a..b] with 0-based offsets, a <= b <= len
Slice(s, a, b) == SubSeq(s, a + 1, b)
\* s[a..]
SliceFrom(s, a) == SubSeq(s, a + 1, Len(s))

\* str::trim_end
TrimEnd(s) ==
    LET keep == {i \in DOMAIN s : ~IsWhitespace(s[i])}
    IN  IF keep = {} THEN <<>>
        ELSE SubSeq(s, 1, CHOOSE i \in keep : \A j \in keep : j <= i)

\* str::trim_start
TrimStart(s) ==
    LET keep == {i \in DOMAIN s : ~IsWhitespace(s[i])}
    IN  IF keep = {} THEN <<>>
        ELSE SubSeq(s, CHOOSE i \in keep : \A j \in keep : i <= j, Len(s))

\* str::trim
Trim(s) == TrimStart(TrimEnd(s))

\* str::starts_with
StartsWith(s, p) == Len(p) <= Len(s) /\ SubSeq(s, 1, Len(p)) = p

\* p occurs in s as a contiguous run
Contains(s, p) == \E a \in 0..(Len(s) - Len(p)) : Slice(s, a, a + Len(p)) = p

\* ------------------------------------------------------------------------
\* Regular expressions, in the shapes main builds them:
\*   \b<lit>(\d+)<suf>   the tracked pattern (one capture group)
\*   \b<lit>\b           a forbidden keyword
\* both case-insensitive.  A regex is [lit, cap, suf, wb_end].
\* ------------------------------------------------------------------------

\* main.rs: RegexBuilder::new(&format!(r"\b{}", match_issue)).case_insensitive(true)
MatchIssueRegex(p) == [lit |-> p.lit, cap |-> TRUE, suf |-> p.suf, wb_end |-> FALSE]

\* main.rs: RegexBuilder::new(&format!(r"\b{}\b", keyword)).case_insensitive(true)
KeywordRegex(k) == [lit |-> k, cap |-> FALSE, suf |-> <<>>, wb_end |-> TRUE]

\* \b at offset i of s: exactly one of the neighbouring characters is a word character
WordBoundary(s, i) ==
    LET before == i >= 1 /\ i <= Len(s) /\ IsWordChar(s[i])
        after  == i + 1 >= 1 /\ i + 1 <= Len(s) /\ IsWordChar(s[i + 1])
    IN  before # after

\* the literal p matches s at offset i, ignoring case
LitAt(s, i, p) ==
    /\ i + Len(p) <= Len(s)
    /\ \A k \in 1..Len(p) : CharToLower(s[i + k]) = CharToLower(p[k])

\* the number of digits of s starting at offset i
DigitRun(s, i) ==
    LET stops == {n \in 0..(Len(s) - i) : n = Len(s) - i \/ ~IsDigit(s[i + n + 1])}
    IN  CHOOSE n \in stops : \A m \in stops : n <= m

\* The match of re that starts at offset i, if any: [start, end, g1s, g1e],
\* end exclusive; (\d+) is greedy and gives digits back only if the rest fails.
MatchAt(re, s, i) ==
    IF ~(i <= Len(s) /\ WordBoundary(s, i) /\ LitAt(s, i, re.lit)) THEN None
    ELSE LET j == i + Len(re.lit) IN
         IF re.cap
         THEN LET ok == {n \in 1..DigitRun(s, j) : LitAt(s, j + n, re.suf)} IN
              IF ok = {} THEN None
              ELSE LET n == CHOOSE n \in ok : \A m \in ok : m <= n
                       e == j + n + Len(re.suf)
                   IN  IF re.wb_end /\ ~WordBoundary(s, e) THEN None
                       ELSE Some([start |-> i, end |-> e, g1s |-> j, g1e |-> j + n])
         ELSE LET e == j + Len(re.suf) IN
              IF ~LitAt(s, j, re.suf) \/ (re.wb_end /\ ~WordBoundary(s, e)) THEN None
              ELSE Some([start |-> i, end |-> e, g1s |-> j, g1e |-> j])

\* Regex::find / Regex::captures: the leftmost match, or None
Find(re, s) ==
    LET at == {i \in 0..Len(s) : MatchAt(re, s, i) # None}
    IN  IF at = {} THEN None
        ELSE MatchAt(re, s, CHOOSE i \in at : \A k \in at : i <= k)

IsMatch(re, s) == Find(re, s) # None

\* A replacement string is a sequence of pieces; the piece "${1}" stands for
\* the capture group, every other piece for itself.
GroupRef == "${1}"
Expand(rep, group) ==
    LET RECURSIVE Go(_)
        Go(k) == IF k > Len(rep) THEN <<>>
                 ELSE (IF rep[k] = GroupRef THEN group ELSE <<rep[k]>>) \o Go(k + 1)
    IN  Go(1)

\* Regex::replace: the leftmost match replaced by the expanded rep, the rest kept
Replace(re, text, rep) ==
    LET found == Find(re, text)
        m == Unwrap(found)
    IN  IF found = None THEN text
        ELSE Slice(text, 0, m.start) \o Expand(rep, Slice(text, m.g1s, m.g1e))
             \o SliceFrom(text, m.end)

\* ------------------------------------------------------------------------
\* The matcher: TodoError::from_line (todo_error.rs)
\* ------------------------------------------------------------------------

UntrackedSuffix == " found without issue number"
UntrackedHelp == "help: create a work item and reference it here"
LinkPrefix == "link: "

\* The outcome of a call: the Vec returned, or a panic (no value returned)
Returned(v) == [status |-> "ok", issues |-> v]
Panic == [status |-> "panic", issues |-> <<>>]

\* TodoError::is_tracked
is_tracked(e) == e.tracking_id # None

\* The tracked branch indexes line[todo_end_index + 1..] for the message and,
\* with a link format, line[todo_start_index..=todo_end_index]; both are out
\* of range exactly when the match ends at the end of the line.
TrackedSliceInRange(l, m) == m.end + 1 <= Len(l)

\* the TodoError pushed for a match m of match_issue (todo_error.rs 51-73)
TrackedIssue(cfg, file_path, l, r, m) ==
    [ tracking_id   |-> Some(Slice(l, m.g1s, m.g1e)),
      file_path     |-> file_path,
      original_line |-> l,
      span_len      |-> Len(Trim(SliceFrom(l, m.start))),
      row           |-> r,
      col           |-> m.start + 1,
      message       |-> Trim(SliceFrom(l, m.end + 1)),
      help_message  |->
          IF cfg.issue_link_format = None THEN None
          ELSE Some(<<LinkPrefix>> \o
                    Trim(Replace(cfg.match_issue, Slice(l, m.start, m.end + 1),
                                 Unwrap(cfg.issue_link_format)))) ]

\* the TodoError pushed for a match m of a forbidden keyword (todo_error.rs 77-96)
UntrackedIssue(file_path, l, r, m) ==
    [ tracking_id   |-> None,
      file_path     |-> file_path,
      original_line |-> l,
      span_len      |-> Len(Trim(SliceFrom(l, m.start))),
      row           |-> r,
      col           |-> m.start + 1,
      message       |-> ToUppercase(Slice(l, m.start, m.end)) \o <<UntrackedSuffix>>,
      help_message  |-> Some(<<UntrackedHelp>>) ]

\* (a faulty variant: the loop stops at the first keyword that matches)
UntrackedIssuesFirstOnly(cfg, file_path, l, r) ==
    LET hits == {k \in DOMAIN cfg.bad_keywords : Find(cfg.bad_keywords[k], l) # None}
        first == CHOOSE k \in hits : \A j \in hits : k <= j
    IN  IF hits = {} THEN <<>>
        ELSE <<UntrackedIssue(file_path, l, r, Unwrap(Find(cfg.bad_keywords[first], l)))>>

\* the loop over config.bad_keywords (todo_error.rs 75-98)
UntrackedIssues(cfg, file_path, l, r) ==
    LET RECURSIVE Go(_)
        Go(k) ==
            IF k > Len(cfg.bad_keywords) THEN <<>>
            ELSE LET found == Find(cfg.bad_keywords[k], l)
                 IN  (IF found = None THEN <<>>
                      ELSE <<UntrackedIssue(file_path, l, r, Unwrap(found))>>) \o Go(k + 1)
    IN  Go(1)

\* TodoError::from_line
FromLine(cfg, file_path, l, r) ==
    LET capture == Find(cfg.match_issue, l)
    IN  IF capture # None
        THEN IF TrackedSliceInRange(l, Unwrap(capture))
             THEN Returned(<<TrackedIssue(cfg, file_path, l, r, Unwrap(capture))>>)
             ELSE Panic
        ELSE Returned(UntrackedIssues(cfg, file_path, l, r))

\* ---- the inputs of the matcher specification

MaxLineLen == 4
Rows == {1, 2}

Alphabet == {"t", "T", "f", "7", ":", " "}
Lines == UNION {[1..n -> Alphabet] : n \in 0..MaxLineLen}

\* the tracked pattern t(\d+): and the link format https://x/${1}
TrackedPattern == [lit |-> <<"t">>, suf |-> <<":">>]
LinkFormat == <<"https://x/", GroupRef>>
KeywordLists == {<<(<<"t">>)>>, <<(<<"t">>), (<<"f">>)>>, <<(<<"f">>), (<<"t">>)>>}

\* main.rs 186-201: the Regexes built from the configuration
Regexes(pattern, link, keywords) ==
    [ match_issue       |-> MatchIssueRegex(pattern),
      issue_link_format |-> link,
      bad_keywords      |-> [i \in DOMAIN keywords |-> KeywordRegex(keywords[i])] ]

Configs == {Regexes(TrackedPattern, link, kws) :
                link \in {None, Some(LinkFormat)}, kws \in KeywordLists}

FilePath == "f"

\* ------------------------------------------------------------------------
\* The comment scope tracker: CommentScopeStack (source_tree_syntect.rs)
\*
\* A scope is a sequence of atoms (comment.block is <<"comment", "block">>).
\* process_ops_for_line is modelled one loop iteration at a time: each
\* action below is one arm of its match, applied to the next (offset, op)
\* pair of the line; NextLine is the return of the call and the start of
\* the call for the following line.  The tokenizer hands out the pairs of a
\* line with offsets that never decrease and lie within the line.
\* ------------------------------------------------------------------------

MaxScopes == 3       \* scopes held, on the live stack and in cleared frames
MaxCleared == 1      \* frames on the cleared stack
MaxSpans == 1        \* comments opened on a line after it has closed this many
MaxLines == 3        \* lines of the file
LineLen == 1         \* length of every line

prefix_scope == <<"comment">>
Scopes == {<<"comment", "block">>, <<"source", "rust">>}
PopCounts == {1, 2}
ClearAmounts == {[top_n |-> 1], [top_n |-> 2], [all |-> TRUE]}

\* stands for usize::MAX, the value a wrapping decrement of 0 leaves
UsizeMax == 2147483647

\* Scope::is_prefix_of
is_prefix_of(p, s) == Len(p) <= Len(s) /\ SubSeq(s, 1, Len(p)) = p

\* the length of the original text (Span::new(&file_contents, 0, len))
OriginalLen == MaxLines * LineLen

\* Span::sub_span(a..b) of a span of the given length that starts at 0:
\* None unless a <= b <= len
sub_span(original, a, b) ==
    IF a <= b /\ b <= original THEN Some([start |-> a, end |-> b]) ELSE None

\* The tracker's fields (original is the length of the span it was built
\* over) together with the call's local Vec, as the loop of
\* process_ops_for_line updates them
Tracker ==
    [ current_comment_start |-> current_comment_start,
      comment_level         |-> comment_level,
      scopes_stack          |-> scopes_stack,
      cleared_scopes_stack  |-> cleared_scopes_stack,
      comments              |-> comments,
      original              |-> OriginalLen,
      panicked              |-> tracker_panicked ]

\* the number of scopes the tracker holds, live and cleared
Held(t) ==
    LET RECURSIVE Sum(_)
        Sum(k) == IF k = 0 THEN 0 ELSE Len(t.cleared_scopes_stack[k]) + Sum(k - 1)
    IN  Len(t.scopes_stack) + Sum(Len(t.cleared_scopes_stack))

\* (a faulty variant: every comment Push records its offset as the start)
ApplyPushAlwaysRecords(t, scope, at) ==
    LET is_comment == is_prefix_of(prefix_scope, scope)
    IN  [t EXCEPT
            !.current_comment_start = IF is_comment THEN Some(at) ELSE @,
            !.comment_level = IF is_comment THEN @ + 1 ELSE @,
            !.scopes_stack = Append(@, scope)]

\* (a faulty variant: every Push raises the level, comment scope or not)
ApplyPushCountsAll(t, scope, at) ==
    [t EXCEPT
        !.current_comment_start =
            IF is_prefix_of(prefix_scope, scope) /\ t.comment_level = 0 THEN Some(at) ELSE @,
        !.comment_level = @ + 1,
        !.scopes_stack = Append(@, scope)]

\* ScopeStackOp::Push(scope) at absolute offset at (lines 138-146)
ApplyPush(t, scope, at) ==
    LET is_comment == is_prefix_of(prefix_scope, scope)
    IN  [t EXCEPT
            !.current_comment_start =
                IF is_comment /\ t.comment_level = 0 THEN Some(at) ELSE @,
            !.comment_level = IF is_comment THEN @ + 1 ELSE @,
            !.scopes_stack = Append(@, scope)]

\* (a faulty variant: the span is emitted for every comment scope popped,
\* whatever the level it leaves)
PopOneEmitAlways(t, at, overflow_checks) ==
    IF t.scopes_stack = <<>> THEN [t EXCEPT !.panicked = TRUE]
    ELSE LET scope == t.scopes_stack[Len(t.scopes_stack)]
             popped == [t EXCEPT !.scopes_stack = SubSeq(@, 1, Len(@) - 1)]
         IN  IF ~is_prefix_of(prefix_scope, scope) THEN popped
             ELSE IF t.comment_level = 0 \/ t.current_comment_start = None
                     \/ sub_span(t.original, Unwrap(t.current_comment_start), at) = None
                  THEN [popped EXCEPT !.panicked = TRUE]
             ELSE [popped EXCEPT
                     !.comment_level = @ - 1,
                     !.comments =
                         Append(@, Unwrap(sub_span(t.original, Unwrap(t.current_comment_start), at)))]

\* One iteration of the loop of Pop (lines 150-164): pop a scope, and if it
\* is a comment scope decrement the level and emit the span at level 0.
\* overflow_checks tells a build that panics on 0 - 1 from one that wraps.
PopOne(t, at, overflow_checks) ==
    IF t.scopes_stack = <<>> THEN [t EXCEPT !.panicked = TRUE]
    ELSE LET scope == t.scopes_stack[Len(t.scopes_stack)]
             popped == [t EXCEPT !.scopes_stack = SubSeq(@, 1, Len(@) - 1)]
         IN  IF ~is_prefix_of(prefix_scope, scope) THEN popped
             ELSE IF t.comment_level = 0 /\ overflow_checks
                  THEN [popped EXCEPT !.panicked = TRUE]
             ELSE LET level == IF t.comment_level = 0 THEN UsizeMax
                               ELSE t.comment_level - 1
                      lowered == [popped EXCEPT !.comment_level = level]
                  IN  IF level # 0 THEN lowered
                      ELSE IF t.current_comment_start = None
                              \/ sub_span(t.original, Unwrap(t.current_comment_start), at) = None
                           THEN [lowered EXCEPT !.panicked = TRUE]
                      ELSE [lowered EXCEPT !.comments =
                              Append(@, Unwrap(sub_span(t.original, Unwrap(t.current_comment_start), at)))]

\* ScopeStackOp::Pop(count) (lines 148-166)
ApplyPop(t, count, at, overflow_checks) ==
    LET RECURSIVE Go(_, _)
        Go(s, n) == IF n = 0 \/ s.panicked THEN s
                    ELSE Go(PopOne(s, at, overflow_checks), n - 1)
    IN  Go(t, count)

\* (a faulty variant: a Clear that removes nothing pushes no frame)
ApplyClearSkipEmpty(t, amount) ==
    LET len == Len(t.scopes_stack)
        min(a, b) == IF a <= b THEN a ELSE b
        to_leave == IF "all" \in DOMAIN amount THEN 0 ELSE len - min(amount.top_n, len)
        cleared == SubSeq(t.scopes_stack, to_leave + 1, len)
    IN  IF cleared = <<>> THEN t
        ELSE [t EXCEPT !.scopes_stack = SubSeq(@, 1, to_leave),
                       !.cleared_scopes_stack = Append(@, cleared)]

\* ScopeStackOp::Clear(amount) (lines 168-184)
ApplyClear(t, amount) ==
    LET len == Len(t.scopes_stack)
        min(a, b) == IF a <= b THEN a ELSE b
        to_leave == IF "all" \in DOMAIN amount THEN 0 ELSE len - min(amount.top_n, len)
        cleared == SubSeq(t.scopes_stack, to_leave + 1, len)
    IN  [t EXCEPT !.scopes_stack = SubSeq(@, 1, to_leave),
                  !.cleared_scopes_stack = Append(@, cleared)]

\* (a faulty variant: a Restore with no cleared frame is ignored)
ApplyRestoreIgnoreEmpty(t) ==
    IF t.cleared_scopes_stack = <<>> THEN t
    ELSE [t EXCEPT
            !.scopes_stack = @ \o t.cleared_scopes_stack[Len(t.cleared_scopes_stack)],
            !.cleared_scopes_stack = SubSeq(@, 1, Len(@) - 1)]

\* (a faulty variant: Restore takes the oldest cleared frame)
ApplyRestoreOldestFrame(t) ==
    IF t.cleared_scopes_stack = <<>> THEN [t EXCEPT !.panicked = TRUE]
    ELSE [t EXCEPT
            !.scopes_stack = @ \o t.cleared_scopes_stack[1],
            !.cleared_scopes_stack = SubSeq(@, 2, Len(@))]

\* ScopeStackOp::Restore (lines 186-190)
ApplyRestore(t) ==
    IF t.cleared_scopes_stack = <<>> THEN [t EXCEPT !.panicked = TRUE]
    ELSE [t EXCEPT
            !.scopes_stack = @ \o t.cleared_scopes_stack[Len(t.cleared_scopes_stack)],
            !.cleared_scopes_stack = SubSeq(@, 1, Len(@) - 1)]

\* ------------------------------------------------------------------------
\* The unified diff parser: UnifiedDiffParser (git_diff.rs)
\*
\* The parser reads the diff text through a Peekable<Lines>.  The text is
\* supplied line by line as the parser asks for it: a request is answered
\* by the slot peek() filled, if it is filled, and else by the next line of
\* the text, which may be any line of the input alphabet or the end of the
\* text (None, and None ever after).  eat_file_header and read_hunk are
\* modelled one line request at a time, pc being the place in the code.
\* ------------------------------------------------------------------------

MaxDiffLines == 7    \* lines of the diff text

\* ---- the input alphabet of diff lines
SourceLine == <<"-","-","-"," ","a","/","f">>
TargetLineF == <<"+","+","+"," ","b","/","f">>
TargetLineNull == <<"+","+","+"," ","/","d","e","v","/","n","u","l","l">>
DiffLine == <<"d","i","f","f"," ","g">>
BodyLines == {<<"+","x">>, <<"+","y">>, <<"-","z">>, <<"+","t"," ">>, <<>>}

\* the two sides of a hunk header, well formed and not
RemovedParts == {<<"-","1",",","0">>, <<"-","5">>, <<"-","5",",","a","b","c">>,
                 <<"-","x">>, <<"5">>}
AddedParts == {<<"+","2",",","2">>, <<"+","5",",","3">>, <<"+","5">>,
               <<"+","5",",","z">>, <<"+","y">>, <<"2">>}
HunkHeader(removed, added) ==
    <<"@","@"," ">> \o removed \o <<" ">> \o added \o <<" ","@","@">>
HunkHeaders ==
    {HunkHeader(r, a) : r \in RemovedParts, a \in AddedParts}
        \cup {<<"@","@"," ","-","5">>}

\* Lines that stand where the parser reads a hunk body: the body lines and
\* DiffLine, which stands for every line that is not a body line (the body
\* loops look at no line's first character).
OtherLines == {DiffLine} \cup BodyLines
AllLines == {SourceLine, TargetLineF, TargetLineNull} \cup OtherLines \cup HunkHeaders

\* ---- diff texts as git writes them: per file a "diff " line, the two
\* ---- header lines and the hunks, each hunk a header and its body

MaxFiles == 2        \* files of a diff text

Paths == {<<"f">>, <<"g">>}
HunkCounts == {1, 2}

\* a line replaced by another: the removed and the added line both hold the
\* forbidden keyword
ReplacedHunk == [remove_start |-> 5, removed |-> << <<"t">> >>,
                 add_start |-> 5, added |-> << <<"t", " ">> >>]
\* two lines added after line 7, the second with the forbidden keyword
AddedHunk == [remove_start |-> 7, removed |-> <<>>,
              add_start |-> 8, added |-> << <<"x">>, <<"t">> >>]
Hunks == {ReplacedHunk, AddedHunk}

FilePatches == {[path |-> path, hunks |-> hunks] :
                   path \in Paths, hunks \in UNION {[1..n -> Hunks] : n \in HunkCounts}}
Patches == UNION {[1..n -> FilePatches] : n \in 1..MaxFiles}

DigitChars == <<"0", "1", "2", "3", "4", "5", "6", "7", "8", "9">>

\* a row or a length below 10 in decimal
FormatUsize(n) == <<DigitChars[n + 1]>>

\* one side of a hunk header: the start, and ",<length>" unless it is 1
RangeText(start, len) ==
    FormatUsize(start) \o (IF len = 1 THEN <<>> ELSE <<",">> \o FormatUsize(len))

RECURSIVE Prefixed(_, _)
Prefixed(sign, texts) ==
    IF texts = <<>> THEN <<>>
    ELSE << <<sign>> \o texts[1] >> \o Prefixed(sign, SubSeq(texts, 2, Len(texts)))

\* the lines of a hunk: "@@ -r1,n1 +r2,n2 @@", the removed lines, the added lines
HunkText(h) ==
    << HunkHeader(<<"-">> \o RangeText(h.remove_start, Len(h.removed)),
                  <<"+">> \o RangeText(h.add_start, Len(h.added))) >>
    \o Prefixed("-", h.removed) \o Prefixed("+", h.added)

RECURSIVE HunksText(_)
HunksText(hunks) ==
    IF hunks = <<>> THEN <<>>
    ELSE HunkText(hunks[1]) \o HunksText(SubSeq(hunks, 2, Len(hunks)))

\* the lines of a file's part of the diff
FileText(f) ==
    << DiffLine, <<"-", "-", "-", " ", "a", "/">> \o f.path,
       <<"+", "+", "+", " ", "b", "/">> \o f.path >>
    \o HunksText(f.hunks)

RECURSIVE PatchText(_)
PatchText(patch) ==
    IF patch = <<>> THEN <<>>
    ELSE FileText(patch[1]) \o PatchText(SubSeq(patch, 2, Len(patch)))

DiffTexts == {PatchText(patch) : patch \in Patches}

\* ---- Rust str operations the parser uses

\* str::strip_prefix
strip_prefix(s, p) == IF StartsWith(s, p) THEN Some(SliceFrom(s, Len(p))) ELSE None

\* str::split(sep) on a one-character separator: the pieces, in order
Split(s, sep) ==
    LET RECURSIVE Go(_, _)
        Go(from, k) ==
            IF k > Len(s) THEN <<SubSeq(s, from, Len(s))>>
            ELSE IF s[k] = sep THEN <<SubSeq(s, from, k - 1)>> \o Go(k + 1, k + 1)
            ELSE Go(from, k + 1)
    IN  Go(1, 1)

DigitValue(c) ==
    CASE c = "0" -> 0 [] c = "1" -> 1 [] c = "2" -> 2 [] c = "3" -> 3 [] c = "4" -> 4
      [] c = "5" -> 5 [] c = "6" -> 6 [] c = "7" -> 7 [] c = "8" -> 8 [] c = "9" -> 9

\* str::parse::<usize>: an optional "+" and one or more digits
\* (a value beyond usize fails too; the numbers here stay far below)
ParseUsize(s) ==
    LET digits == IF s # <<>> /\ s[1] = "+" THEN SliceFrom(s, 1) ELSE s
        RECURSIVE Value(_)
        Value(k) == IF k = 0 THEN 0 ELSE 10 * Value(k - 1) + DigitValue(digits[k])
    IN  IF digits = <<>> \/ \E k \in DOMAIN digits : ~IsDigit(digits[k]) THEN None
        ELSE Some(Value(Len(digits)))

\* ---- read_hunk

Ok(v) == [status |-> "ok", value |-> v]
Err(msg) == [status |-> "err", value |-> msg]
\* a panic (an unwrap of None, a slice out of range), named by its place
Panicked(site) == [status |-> "panic", value |-> site]

\* (a faulty variant: a missing length counts as 0)
ParseLengthDefaultZero(pieces) ==
    IF Len(pieces) < 2 \/ ParseUsize(pieces[2]) = None THEN 0
    ELSE Unwrap(ParseUsize(pieces[2]))

\* parts.next().context(..).and_then(|l| l.parse().context(..)).unwrap_or(1)
\* (git_diff.rs 159-163, 183-187): the piece after the comma, or 1 when it is
\* missing, and 1 as well when it does not parse
ParseLength(pieces) ==
    IF Len(pieces) < 2 \/ ParseUsize(pieces[2]) = None THEN 1
    ELSE Unwrap(ParseUsize(pieces[2]))

\* One side of the hunk header (git_diff.rs 147-169, 171-193): part is the
\* piece between spaces, sign its "-" or "+"
ParseRange(part, sign, missing) ==
    LET stripped == strip_prefix(part, <<sign>>)
        pieces == Split(Unwrap(stripped), ",")
        parsed_row == ParseUsize(pieces[1])
    IN  IF stripped = None THEN Err(missing)
        ELSE IF parsed_row = None THEN Err("failed to parse row")
        ELSE Ok([start |-> Unwrap(parsed_row),
                 end |-> Unwrap(parsed_row) + ParseLength(pieces)])

\* The hunk header (git_diff.rs 140-193): the two ranges, an error, or the
\* panic of parts.next().unwrap() when the line has no second piece
ParseHunkHeader(l) ==
    LET rest == strip_prefix(l, <<"@","@"," ">>)
        parts == Split(Unwrap(rest), " ")
        removed == ParseRange(parts[1], "-", "patch missing removed section")
        added == ParseRange(parts[2], "+", "patch missing added section")
    IN  IF rest = None THEN Err("patch line invalid")
        ELSE IF removed.status # "ok" THEN removed
        ELSE IF Len(parts) < 2 THEN Panicked("parts.next().unwrap()")
        ELSE IF added.status # "ok" THEN added
        ELSE Ok([remove |-> removed.value, add |-> added.value])

\* (a faulty variant: the row counts from one past the range's start)
ChangedLineRowOff(l, r) == [line |-> TrimEnd(SliceFrom(l, 1)), row |-> r + 1]

\* ChangedLine { line: line[1..].trim_end(), row } (git_diff.rs 202-203, 207-208)
ChangedLine(l, r) == [line |-> TrimEnd(SliceFrom(l, 1)), row |-> r]

\* the place of the body loops after n_removed and n_added lines
BodyPc(remove, add, n_removed, n_added) ==
    IF remove.start + n_removed < remove.end THEN "removed"
    ELSE IF add.start + n_added < add.end THEN "added"
    ELSE "after"

\* (a faulty variant: the hunk does not take the active path)
NewHunkNoFile(file) == [file |-> <<>>, removed |-> <<>>, added |-> <<>>]

\* Hunk { file: self.current_file, removed: Vec::new(), added: Vec::new() }
\* (git_diff.rs 195-199)
NewHunk(file) == [file |-> file, removed |-> <<>>, added |-> <<>>]

\* ---- GitDiffChecker::process_spans

\* PathBuf::from(format!(".{}{}", MAIN_SEPARATOR, hunk.file.replace("/", ..)))
HunkPath(file) == <<".", "/">> \o file

\* todo_errors.extend(..) within the loop: the findings of one added line
\* before those of the lines after it, or Panicked if a call panicked
Extended(found, rest) ==
    IF found.status # "ok" THEN Panicked("from_line")
    ELSE IF rest.status # "ok" THEN rest
    ELSE Ok(found.issues \o rest.value)

\* (a faulty variant: the removed lines are classified as well)
RECURSIVE ChangedFindings(_, _, _)
ChangedFindings(cfg, h, k) ==
    IF k > Len(h.removed \o h.added) THEN Ok(<<>>)
    ELSE Extended(FromLine(cfg, HunkPath(h.file), (h.removed \o h.added)[k].line,
                           (h.removed \o h.added)[k].row),
                  ChangedFindings(cfg, h, k + 1))

\* the for loop over hunk.added (git_diff.rs 73-75), from the k-th added
\* line on: the findings of from_line on every added line
RECURSIVE AddedFindings(_, _, _)
AddedFindings(cfg, h, k) ==
    IF k > Len(h.added) THEN Ok(<<>>)
    ELSE Extended(FromLine(cfg, HunkPath(h.file), h.added[k].line, h.added[k].row),
                  AddedFindings(cfg, h, k + 1))

\* (a faulty variant: an error of the parser ends the loop with what was found)
PropagateAsBreak(e, found) == Ok(found)

\* the ? on UnifiedDiffParser::new and on read_hunk (git_diff.rs 56, 65):
\* process_spans returns the error, and todo_errors is dropped
Propagate(e, found) == e

\* ------------------------------------------------------------------------
\* The source tree checkers: SourceTreeSimpleChecker (source_tree_simple.rs)
\* and SourceTreeSyntectChecker (source_tree_syntect.rs)
\*
\* Both hand a closure to a parallel directory walker; each walker thread
\* runs the closure on the entries it takes.  A worker below is one walker
\* thread, and the statement
\*     todo_errors.lock().unwrap().extend(<findings of the line>)
\* is two steps: the lock is taken first (the receiver is evaluated before
\* the argument), then the line is classified and the findings appended
\* while the guard is alive, and the guard is dropped.
\* ------------------------------------------------------------------------

MaxEntries == 2      \* entries the walk yields
NumThreads == 2      \* walker threads

Workers == 1..NumThreads

\* ---- the files of the tree: lines (without their line ends) and, for the
\* ---- tokenizer, the (offset, op) pairs parse_line gives for each line
TrackedText == <<"t", "7", ":", " ", "f">>
UntrackedText == <<"t">>
EndsAtMatchText == <<"t", "7", ":">>
PlainText == <<"f">>

comment_block == <<"comment", "block">>

SourceLineOf(text, ops) == [text |-> text, ops |-> ops]

\* a directory
Directory == [is_file |-> FALSE, syntax |-> "none", contents |-> None]
\* a file read_to_string fails on, whose name selects a grammar or not
UnreadableSource == [is_file |-> TRUE, syntax |-> "by_name", contents |-> None]
UnreadableOther == [is_file |-> TRUE, syntax |-> "none", contents |-> None]
\* a comment with a tracked marker, then a comment that is never closed
OpenEndedSource ==
    [is_file |-> TRUE, syntax |-> "by_name", contents |-> Some(<<
        SourceLineOf(TrackedText, <<[off |-> 0, kind |-> "Push", scope |-> comment_block],
                                    [off |-> 5, kind |-> "Pop", count |-> 1]>>),
        SourceLineOf(UntrackedText, <<[off |-> 0, kind |-> "Push", scope |-> comment_block]>>) >>)]
\* code (no comment) whose only line ends with a tracked marker
EndsAtMatchSource ==
    [is_file |-> TRUE, syntax |-> "by_name", contents |-> Some(<<
        SourceLineOf(EndsAtMatchText, <<>>) >>)]
\* a file no grammar is found for, with a forbidden keyword
OtherFile ==
    [is_file |-> TRUE, syntax |-> "none", contents |-> Some(<<
        SourceLineOf(UntrackedText, <<>>) >>)]

\* a one-line comment that is a forbidden keyword
UntrackedSource ==
    [is_file |-> TRUE, syntax |-> "by_name", contents |-> Some(<<
        SourceLineOf(UntrackedText, <<[off |-> 0, kind |-> "Push", scope |-> comment_block],
                                      [off |-> 1, kind |-> "Pop", count |-> 1]>>) >>)]

Entries == {Directory, UnreadableSource, UnreadableOther, OpenEndedSource,
            UntrackedSource, EndsAtMatchSource, OtherFile}
Trees == UNION {[1..n -> Entries] : n \in 1..MaxEntries}

\* DirEntry::path: the k-th entry of the walk has its own path
EntryPath(k) == <<"f", k>>

\* ---- a walker thread
Idle == [pc |-> "idle", entry |-> 0, row_zero_indexed |-> 0, stack |-> None, site |-> None]
Dead(site) == [pc |-> "dead", entry |-> 0, row_zero_indexed |-> 0, stack |-> None,
               site |-> Some(site)]

\* Mutex::new
Unlocked == [holder |-> None, poisoned |-> FALSE]

\* ---- the size of the worker pool (source_tree_simple.rs 23,
\* ---- source_tree_syntect.rs 231)

MaxCpus == 4         \* CPUs of the machine
Cpus == 1..MaxCpus   \* num_cpus::get() is at least 1

\* num_cpus::get() - 2 on usize: below 2 the subtraction overflows, which
\* panics in a build with overflow checks and wraps around in one without
NumThreadsOf(cpus, overflow_checks) ==
    IF cpus >= 2 THEN Ok(cpus - 2)
    ELSE IF overflow_checks THEN Panicked("attempt to subtract with overflow")
    ELSE Ok(UsizeMax - (1 - cpus))

\* ---- SourceTreeSimpleChecker (source_tree_simple.rs 32-49)

\* (a faulty variant: the row passed is the index of enumerate())
RowZeroIndexed(row_zero_indexed) == row_zero_indexed

\* row_zero_indexed + 1 (line 43)
RowOneIndexed(row_zero_indexed) == row_zero_indexed + 1

\* (a faulty variant: the findings of a line replace the Vec)
Overwritten(list, found) == found

\* (a faulty variant: the findings of a line are put in front of the Vec)
Prepended(list, found) == found \o list

\* Vec::extend on the Vec inside the mutex (lines 39, 44)
Appended(list, found) == list \o found

\* the entry a worker starts on (lines 34-38): a directory or a file that
\* cannot be read leaves the closure at once, as does a file with no lines
Entered(k, e) ==
    IF ~e.is_file \/ e.contents = None \/ Unwrap(e.contents) = <<>> THEN Idle
    ELSE [Idle EXCEPT !.pc = "lines", !.entry = k]

\* the worker after the line at w.row_zero_indexed (the for of line 38)
AfterLine(w, contents) ==
    IF w.row_zero_indexed + 1 = Len(contents) THEN Idle
    ELSE [w EXCEPT !.pc = "lines", !.row_zero_indexed = @ + 1]

\* ---- SourceTreeSyntectChecker (source_tree_syntect.rs 242-277)

\* a line of the file takes its text and its line end
RECURSIVE LineStart(_, _)
LineStart(contents, r) ==
    IF r = 1 THEN 0 ELSE LineStart(contents, r - 1) + Len(contents[r - 1].text) + 1

\* file_contents.len()
FileLen(contents) == LineStart(contents, Len(contents) + 1)

\* CommentScopeStack::new(file_span) (lines 114-123), with the local Vec of
\* the call of process_ops_for_line to come
NewStack(original) ==
    [ current_comment_start |-> None,
      comment_level         |-> 0,
      scopes_stack          |-> <<>>,
      cleared_scopes_stack  |-> <<>>,
      comments              |-> <<>>,
      original              |-> original,
      panicked              |-> FALSE ]

\* one iteration of the loop of process_ops_for_line (lines 135-194)
ApplyOp(t, p, line_start, overflow_checks) ==
    CASE p.kind = "Push"    -> ApplyPush(t, p.scope, line_start + p.off)
      [] p.kind = "Pop"     -> ApplyPop(t, p.count, line_start + p.off, overflow_checks)
      [] p.kind = "Clear"   -> ApplyClear(t, p.amount)
      [] p.kind = "Restore" -> ApplyRestore(t)
      [] p.kind = "Noop"    -> t

\* process_ops_for_line (lines 130-197) from the i-th pair of the line on;
\* a panic ends the call
RECURSIVE ProcessOpsFrom(_, _, _, _, _)
ProcessOpsFrom(t, ops, i, line_start, overflow_checks) ==
    IF i > Len(ops) \/ t.panicked THEN t
    ELSE ProcessOpsFrom(ApplyOp(t, ops[i], line_start, overflow_checks), ops, i + 1,
                        line_start, overflow_checks)

ProcessOpsForLine(t, ops, line_start, overflow_checks) ==
    ProcessOpsFrom([t EXCEPT !.comments = <<>>], ops, 1, line_start, overflow_checks)

Max2(a, b) == IF a >= b THEN a ELSE b
Min2(a, b) == IF a <= b THEN a ELSE b

\* The text of line r that lies inside the span.  lines_span belongs to the
\* span crate, whose code is not among the sources; it is taken here as the
\* split of the comment's text into its lines, each with the row it has in
\* the file.
CommentLine(contents, span, r) ==
    LET s == LineStart(contents, r)
        a == Max2(s, span.start)
        b == Min2(s + Len(contents[r].text), span.end)
    IN  IF a < b THEN Slice(contents[r].text, a - s, b - s) ELSE <<>>

\* the findings of two calls of from_line one after the other, or a panic
Joined(found, rest) ==
    IF found.status # "ok" \/ rest.status # "ok" THEN Panic
    ELSE Returned(found.issues \o rest.issues)

\* (a faulty variant: the row passed is the index of the line within the
\* comment)
RECURSIVE FromCommentRowInComment(_, _, _, _, _)
FromCommentRowInComment(cfg, file_path, contents, span, r) ==
    IF r > Len(contents) THEN Returned(<<>>)
    ELSE IF Trim(CommentLine(contents, span, r)) = <<>>
         THEN FromCommentRowInComment(cfg, file_path, contents, span, r + 1)
    ELSE Joined(FromLine(cfg, file_path, CommentLine(contents, span, r),
                         Cardinality({q \in 1..r :
                             LineStart(contents, q) + Len(contents[q].text) >= span.start})),
                FromCommentRowInComment(cfg, file_path, contents, span, r + 1))

\* TodoError::from_comment (todo_error.rs 105-119) from line r on: lines
\* that are blank once trimmed are dropped, the others go to from_line with
\* the row of the line in the file
RECURSIVE FromComment(_, _, _, _, _)
FromComment(cfg, file_path, contents, span, r) ==
    IF r > Len(contents) THEN Returned(<<>>)
    ELSE IF Trim(CommentLine(contents, span, r)) = <<>>
         THEN FromComment(cfg, file_path, contents, span, r + 1)
    ELSE Joined(FromLine(cfg, file_path, CommentLine(contents, span, r), r),
                FromComment(cfg, file_path, contents, span, r + 1))

\* .flat_map(|span| TodoError::from_comment(config, file_path, span)) over
\* the spans a call of process_ops_for_line returned (lines 267-268)
RECURSIVE FromComments(_, _, _, _, _)
FromComments(cfg, file_path, contents, spans, i) ==
    IF i > Len(spans) THEN Returned(<<>>)
    ELSE Joined(FromComment(cfg, file_path, contents, spans[i], 1),
                FromComments(cfg, file_path, contents, spans, i + 1))

\* syntax_set.find_syntax_for_file(entry.path()) (line 246): the grammar is
\* chosen by the file's name, else by its first line, which has to be read
find_syntax_for_file(e) ==
    IF e.syntax = "by_name" THEN Ok(Some("syntax"))
    ELSE IF e.contents = None THEN Err("io")
    ELSE IF e.syntax = "by_first_line" THEN Ok(Some("syntax"))
    ELSE Ok(None)

\* the entry a worker starts on (lines 243-256): a directory and a file
\* without a grammar leave the closure; read_to_string(..).unwrap() panics
\* on a file that cannot be read; otherwise the tracker spans the whole file
EnteredSyntect(k, e) ==
    IF ~e.is_file \/ find_syntax_for_file(e) # Ok(Some("syntax")) THEN Idle
    ELSE IF e.contents = None THEN Dead("read_to_string")
    ELSE IF Unwrap(e.contents) = <<>> THEN Idle
    ELSE [Idle EXCEPT !.pc = "lines", !.entry = k,
                      !.stack = Some(NewStack(FileLen(Unwrap(e.contents))))]

\* debug!("working on {}") (line 248) and debug!("Ignoring file {}") (line 272)
Logged(k, e) ==
    IF ~e.is_file THEN {}
    ELSE IF find_syntax_for_file(e) = Ok(Some("syntax")) THEN {<<"debug", "working on", k>>}
    ELSE {<<"debug", "Ignoring file", k>>}

\* ---- the scan of main (main.rs 228-290): the same walk on one thread,
\* ---- each finding filtered, written and counted as it is found

ReportKinds == {"Untracked", "All"}

UntrackedIssuesFound == "untracked issues found"

\* the filter on opt.config.report_kind (main.rs 257-266)
Kept(kind, e) == IF kind = "Untracked" THEN ~is_tracked(e) ELSE TRUE

Filtered(kind, issues) ==
    LET Keep(e) == Kept(kind, e)
    IN  SelectSeq(issues, Keep)

\* (a faulty variant: any finding written sets the flag)
FlaggedByAny(flag, e) == TRUE

\* if !todo_error.is_tracked() { has_untracked = true } (main.rs 271-273)
Flagged(flag, e) == flag \/ ~is_tracked(e)

\* has_untracked after the first n of the findings have gone through the
\* body of the for (main.rs 268-273)
RECURSIVE FlaggedAfter(_, _, _)
FlaggedAfter(flag, issues, n) ==
    IF n = 0 THEN flag ELSE Flagged(FlaggedAfter(flag, issues, n - 1), issues[n])

\* ---- the commands GitDiffChecker::process_spans runs (git_diff.rs 16-56)

Upstream == <<"u", "p", "s", "t", "r", "e", "a", "m">>
Origin == <<"o", "r", "i", "g", "i", "n">>
HeadBranch == <<"H", "E", "A", "D", " ", "b", "r", "a", "n", "c", "h", ":", " ">>
Master == <<"m", "a", "s", "t", "e", "r">>

\* what the commands may print, line by line
RemoteOutputs ==
    { <<>>,
      << Origin \o <<"\t", "u">> >>,
      << Origin \o <<"\t", "u">>, Upstream \o <<"\t", "v">> >>,
      << <<" ">> \o Upstream \o <<"2", "\t", "w">> >> }
ShowOutputs ==
    { <<>>,
      << <<"*", " ", "r">>, <<" ", " ">> \o HeadBranch \o <<"d", "e", "v">> >>,
      << HeadBranch \o <<"m", "a", "i", "n">> >> }
ForkPoints == {<<"c", "1">>, <<"c", "2">>, <<"c", "3">>}
DiffOutputs == {<<>>, <<SourceLine, TargetLineF>>, <<DiffLine, SourceLine, TargetLineF>>}

\* Expression::read: the output, or an error when the command cannot be
\* started or exits with a non-zero status
Reads(outputs) == {Ok(out) : out \in outputs} \cup {Err("command failed")}

\* Iterator::find_map over the lines: the first line the test holds for
FirstLine(output, Test(_)) ==
    LET hits == {i \in DOMAIN output : Test(output[i])}
    IN  IF hits = {} THEN None
        ELSE Some(output[CHOOSE i \in hits : \A j \in hits : i <= j])

\* the remote chosen from the output of `git remote -v` (lines 18-28)
RemoteOf(output) ==
    LET IsUpstream(l) == StartsWith(Trim(l), Upstream)
    IN  IF FirstLine(output, IsUpstream) # None THEN Upstream ELSE Origin

\* the branch read from the output of `git remote show` (lines 34-45)
BranchOf(output) ==
    LET IsHead(l) == StartsWith(Trim(l), HeadBranch)
        found == FirstLine(output, IsHead)
    IN  IF found = None THEN Master
        ELSE SliceFrom(Trim(Unwrap(found)), Len(HeadBranch))

\* format!("{}/{}", remote, branch) (lines 31-46)
RemoteRef(name, branch) == name \o <<"/">> \o branch

\* (a faulty variant: the result of a command is not looked at)
Unchecked(result, next) == next

\* the ? on read(): where process_spans stands after a command
Try(result, next) == IF result.status = "ok" THEN next ELSE "done"

\* the command lines
GitRemote == <<"git", "remote", "-v">>
GitRemoteShow(name) == <<"git", "remote", "show", name>>
GitMergeBase(ref) == <<"git", "merge-base", "--fork-point", ref>>
GitDiff(commit) == <<"git", "diff", "--unified=0", commit>>

\* ------------------------------------------------------------------------
\* Initial states
\* ------------------------------------------------------------------------

MatcherIdle ==
    /\ config = Regexes(TrackedPattern, None, <<(<<"t">>)>>)
    /\ line = <<>>
    /\ row = 1
    /\ from_line = None

\* CommentScopeStack::new, and the first line about to be processed
TrackerNew ==
    /\ current_comment_start = None
    /\ comment_level = 0
    /\ scopes_stack = <<>>
    /\ cleared_scopes_stack = <<>>
    /\ original_line = [start |-> 0, len |-> LineLen]
    /\ op = None
    /\ comments = <<>>
    /\ tracker_panicked = FALSE

\* process_spans has the diff text and calls UnifiedDiffParser::new, which
\* sets the fields (git_diff.rs 95-101) and calls eat_file_header
DiffNew ==
    /\ pc = "eat_file_header"
    /\ lines = [peeked |-> None, taken |-> 0, eof |-> FALSE]
    /\ current_file = <<>>
    /\ current_patch_remove = [start |-> 0, end |-> 0]
    /\ current_patch_add = [start |-> 0, end |-> 0]
    /\ hunk = None
    /\ hunk_source = <<>>
    /\ todo_errors = <<>>
    /\ run_result = None

\* before GitDiffChecker::process_spans has run a command
CommandsIdle ==
    /\ commands = <<>>
    /\ remote = None
    /\ remote_ref = None
    /\ fork_point = None
    /\ diff = None

\* no walk under way: the Arc<Mutex<Vec>> is new, no thread has an entry
WalkIdle ==
    /\ num_threads = None
    /\ tree = <<>>
    /\ walk_queue = {}
    /\ workers = [w \in Workers |-> Idle]
    /\ mutex = Unlocked
    /\ shared_todo_errors = <<>>
    /\ diagnostics = {}
    /\ walk_result = None

\* main before its loop (main.rs 228-229)
MainIdle ==
    /\ report_kind = "Untracked"
    /\ next_entry = 1
    /\ file_scan = None
    /\ has_untracked = FALSE
    /\ issues_found_count = 0
    /\ stderr = <<>>
    /\ main_result = None

ScanIdle == CommandsIdle /\ WalkIdle /\ MainIdle

\* ------------------------------------------------------------------------
\* The matcher specification: from_line applied to every line and rule set
\* ------------------------------------------------------------------------

InitMatcher ==
    /\ config \in Configs
    /\ line \in Lines
    /\ row \in Rows
    /\ from_line = None
    /\ TrackerNew
    /\ DiffNew
    /\ ScanIdle

CallFromLine ==
    /\ from_line = None
    /\ from_line' = Some(FromLine(config, FilePath, line, row))
    /\ UNCHANGED <<config, line, row, tracker_vars, diff_vars, scan_vars>>

NextMatcher == CallFromLine

SpecMatcher == InitMatcher /\ [][NextMatcher]_vars

\* ---- claims about the matcher

Called == from_line # None
Outcome == Unwrap(from_line)

\* The tracked pattern occurs in l, said without the regex engine: the
\* literal at a word boundary, one or more digits, then the suffix.
TrackedOccursAt(p, l, a, n) ==
    /\ a + Len(p.lit) + n + Len(p.suf) <= Len(l)
    /\ n >= 1
    /\ \A k \in 1..Len(p.lit) : CharToLower(l[a + k]) = CharToLower(p.lit[k])
    /\ \A k \in 1..n : IsDigit(l[a + Len(p.lit) + k])
    /\ \A k \in 1..Len(p.suf) :
           CharToLower(l[a + Len(p.lit) + n + k]) = CharToLower(p.suf[k])
    /\ (a = 0 \/ ~IsWordChar(l[a])) = IsWordChar(l[a + 1])
TrackedOccurs(p, l) ==
    \E a \in 0..Len(l), n \in 1..Len(l) : TrackedOccursAt(p, l, a, n)

\* the keyword kw occurs in l as a whole word, ignoring case
KeywordOccurs(kw, l) ==
    \E a \in 0..(Len(l) - Len(kw)) :
        /\ \A k \in 1..Len(kw) : CharToLower(l[a + k]) = CharToLower(kw[k])
        /\ (a = 0 \/ ~IsWordChar(l[a]))
        /\ (a + Len(kw) = Len(l) \/ ~IsWordChar(l[a + Len(kw) + 1]))

\* C1: whenever the tracked pattern matches the line, from_line returns
\* exactly one finding, and it is tracked; none is untracked, whatever
\* forbidden keywords the line holds.
\* (stated as claimed; the code panics when the match ends the line)
C1_TrackedPrecedence ==
    (Called /\ TrackedOccurs(TrackedPattern, line)) =>
        /\ Outcome.status = "ok"
        /\ Len(Outcome.issues) = 1
        /\ \A i \in DOMAIN Outcome.issues : is_tracked(Outcome.issues[i])

\* C2: whenever the tracked pattern matches with capture C, also when the
\* match ends the line, from_line returns without a panic exactly one finding
\* with tracking id C, whose help message holds the link format with C filled
\* in, or is absent when no link format is configured.
\* (stated as claimed; the code panics when the match ends the line)
C2_TrackedFinding ==
    \A a \in 0..Len(line), n \in 1..Len(line) :
        (/\ Called
         /\ TrackedOccursAt(TrackedPattern, line, a, n)
         /\ \A b \in 0..(a - 1), m \in 1..Len(line) :
                ~TrackedOccursAt(TrackedPattern, line, b, m)
         /\ \A m \in (n + 1)..Len(line) : ~TrackedOccursAt(TrackedPattern, line, a, m)) =>
        LET C == Slice(line, a + Len(TrackedPattern.lit), a + Len(TrackedPattern.lit) + n)
        IN  /\ Outcome.status = "ok"
            /\ Len(Outcome.issues) = 1
            /\ Outcome.issues[1].tracking_id = Some(C)
            /\ IF config.issue_link_format = None
               THEN Outcome.issues[1].help_message = None
               ELSE /\ Outcome.issues[1].help_message # None
                    /\ Contains(Unwrap(Outcome.issues[1].help_message),
                                Expand(Unwrap(config.issue_link_format), C))

\* C18: whenever the tracked pattern matches, the finding's message is the
\* text of the line after the end of the match, trimmed at both ends: no
\* character other than whitespace is dropped after the match, and a match
\* that ends the line gives the empty message.
\* (stated as claimed; the code starts the message one character after the
\* end of the match)
C18_MessageAfterMatch ==
    \A a \in 0..Len(line), n \in 1..Len(line) :
        (/\ Called
         /\ TrackedOccursAt(TrackedPattern, line, a, n)
         /\ \A b \in 0..(a - 1), m \in 1..Len(line) :
                ~TrackedOccursAt(TrackedPattern, line, b, m)
         /\ \A m \in (n + 1)..Len(line) : ~TrackedOccursAt(TrackedPattern, line, a, m)) =>
        LET end == a + Len(TrackedPattern.lit) + n + Len(TrackedPattern.suf)
        IN  /\ Outcome.status = "ok"
            /\ Len(Outcome.issues) = 1
            /\ Outcome.issues[1].message = Trim(SliceFrom(line, end))

\* the keywords of the configuration that occur in the line, in configured order
MatchingKeywords ==
    LET RECURSIVE Go(_)
        Go(k) == IF k > Len(config.bad_keywords) THEN <<>>
                 ELSE (IF KeywordOccurs(config.bad_keywords[k].lit, line)
                       THEN <<config.bad_keywords[k].lit>> ELSE <<>>) \o Go(k + 1)
    IN  Go(1)

\* C3: on a line the tracked pattern does not match, from_line returns one
\* untracked finding for every configured keyword that occurs as a whole
\* word (ignoring case, however often it occurs) and none for the others, in
\* configured order, each without tracking id and with the message
\* "<KEYWORD> found without issue number".
C3_UntrackedFindings ==
    (Called /\ ~TrackedOccurs(TrackedPattern, line)) =>
        /\ Outcome.status = "ok"
        /\ Len(Outcome.issues) = Len(MatchingKeywords)
        /\ \A i \in DOMAIN Outcome.issues :
              /\ Outcome.issues[i].tracking_id = None
              /\ Outcome.issues[i].message
                    = ToUppercase(MatchingKeywords[i]) \o <<UntrackedSuffix>>

\* the line "T f" checked against the keywords f, t: two findings, F then T
C3_Witness ==
    /\ Called
    /\ line = <<"T", " ", "f">>
    /\ Len(config.bad_keywords) = 2
    /\ config.bad_keywords[1].lit = <<"f">>
    /\ Outcome.status = "ok"
    /\ Len(Outcome.issues) = 2
    /\ Outcome.issues[1].message = <<"F", UntrackedSuffix>>
    /\ Outcome.issues[2].message = <<"T", UntrackedSuffix>>
    /\ Outcome.issues[2].col = 1

\* ------------------------------------------------------------------------
\* The tracker specification: any stream of scope operations, line by line
\* ------------------------------------------------------------------------

InitTracker ==
    /\ MatcherIdle
    /\ TrackerNew
    /\ DiffNew
    /\ ScanIdle

\* the offsets the next pair of the line may carry
NextOffsets ==
    {o \in 0..original_line.len : op = None \/ Unwrap(op).off <= o}

\* the loop takes the pair p and leaves the tracker as t
Step(p, t) ==
    /\ ~tracker_panicked
    /\ op' = Some(p)
    /\ current_comment_start' = t.current_comment_start
    /\ comment_level' = t.comment_level
    /\ scopes_stack' = t.scopes_stack
    /\ cleared_scopes_stack' = t.cleared_scopes_stack
    /\ comments' = t.comments
    /\ tracker_panicked' = t.panicked
    /\ UNCHANGED <<original_line, matcher_vars, diff_vars, scan_vars>>

Push ==
    \E o \in NextOffsets, scope \in Scopes :
        /\ Held(Tracker) < MaxScopes
        /\ is_prefix_of(prefix_scope, scope) => Len(comments) < MaxSpans
        /\ Step([off |-> o, kind |-> "Push", scope |-> scope],
                ApplyPush(Tracker, scope, original_line.start + o))

Pop ==
    \E o \in NextOffsets, count \in PopCounts, overflow_checks \in BOOLEAN :
        Step([off |-> o, kind |-> "Pop", count |-> count],
             ApplyPop(Tracker, count, original_line.start + o, overflow_checks))

Clear ==
    \E o \in NextOffsets, amount \in ClearAmounts :
        /\ Len(cleared_scopes_stack) < MaxCleared
        /\ Step([off |-> o, kind |-> "Clear", amount |-> amount],
                ApplyClear(Tracker, amount))

Restore ==
    \E o \in NextOffsets :
        Step([off |-> o, kind |-> "Restore"], ApplyRestore(Tracker))

Noop ==
    \E o \in NextOffsets :
        Step([off |-> o, kind |-> "Noop"], Tracker)

\* process_ops_for_line returns comments; the caller calls it for the next line
NextLine ==
    /\ ~tracker_panicked
    /\ original_line.start + original_line.len < OriginalLen
    /\ original_line' = [start |-> original_line.start + original_line.len,
                         len |-> LineLen]
    /\ op' = None
    /\ comments' = <<>>
    /\ UNCHANGED <<current_comment_start, comment_level, scopes_stack,
                   cleared_scopes_stack, tracker_panicked, matcher_vars, diff_vars, scan_vars>>

NextTracker == Push \/ Pop \/ Clear \/ Restore \/ Noop \/ NextLine

SpecTracker == InitTracker /\ [][NextTracker]_vars

\* ------------------------------------------------------------------------
\* The diff specification: process_spans from UnifiedDiffParser::new on,
\* over every diff text of the input alphabet
\* ------------------------------------------------------------------------

InitDiff ==
    /\ MatcherIdle
    /\ TrackerNew
    /\ DiffNew
    /\ ScanIdle

\* What the underlying Lines iterator can hand out next: the next line of
\* the diff text when the text is given, else any line of the alphabet or
\* the end of the text.
Fresh(alphabet) ==
    IF diff # None
    THEN IF lines.taken < Len(Unwrap(diff)) THEN {Some(Unwrap(diff)[lines.taken + 1])}
         ELSE {None}
    ELSE IF lines.eof \/ lines.taken >= MaxDiffLines THEN {None}
    ELSE {None} \cup {Some(l) : l \in alphabet}

\* what the next peek() or next() of the Peekable yields
Upcoming(alphabet) ==
    IF lines.peeked # None THEN {Unwrap(lines.peeked)} ELSE Fresh(alphabet)

Handed(x) == IF lines.peeked = None /\ x # None THEN 1 ELSE 0

\* (a faulty variant: next() hands out the line and leaves it in place, as
\* peek() does)
TakenLeavesLine(x) ==
    [peeked |-> Some(x), taken |-> lines.taken + Handed(x), eof |-> lines.eof \/ x = None]

\* lines.next() yielded x
Taken(x) ==
    [peeked |-> None, taken |-> lines.taken + Handed(x), eof |-> lines.eof \/ x = None]

\* lines.peek() yielded x
Peeked(x) ==
    [peeked |-> Some(x), taken |-> lines.taken + Handed(x), eof |-> lines.eof \/ x = None]

\* process_spans ends with outcome r
Return(r) ==
    /\ pc' = "done"
    /\ run_result' = Some(r)

\* process_spans goes on with the findings of a hunk (git_diff.rs 73-75)
Classified(found) ==
    IF found.status = "ok"
    THEN /\ todo_errors' = todo_errors \o found.value
         /\ pc' = "loop"
         /\ run_result' = run_result
    ELSE /\ Return(found)
         /\ todo_errors' = todo_errors

\* read_hunk returns Ok(hunk) to process_spans, which classifies the added
\* lines (git_diff.rs 65-75) and loops
HunkReturned == Classified(AddedFindings(config, Unwrap(hunk), 1))

\* eat_file_header, the loop and the source line (git_diff.rs 113-126)
EatSourceLine ==
    /\ pc = "eat_file_header"
    /\ \E x \in Upcoming(AllLines) :
        /\ lines' = Taken(x)
        /\ IF x = None
           THEN Return(Propagate(Err("next line exists"), todo_errors))
           ELSE IF StartsWith(Unwrap(x), <<"-","-","-"," ">>)
           THEN pc' = "target_line" /\ run_result' = run_result
           ELSE IF StartsWith(Unwrap(x), <<"+","+","+"," ">>)
           THEN Return(Propagate(Err("remove line invalid"), todo_errors))
           ELSE pc' = pc /\ run_result' = run_result
    /\ UNCHANGED <<current_file, current_patch_remove, current_patch_add, hunk,
                   hunk_source, todo_errors, matcher_vars, tracker_vars, scan_vars>>

\* eat_file_header, the target line (git_diff.rs 128-135), and the return
\* to new or to read_hunk
EatTargetLine ==
    /\ pc = "target_line"
    /\ \E x \in Upcoming(AllLines) :
        /\ lines' = Taken(x)
        /\ IF x = None
           THEN /\ Return(Propagate(Err("target line exists"), todo_errors))
                /\ UNCHANGED <<current_file, todo_errors>>
           ELSE IF ~StartsWith(Unwrap(x), <<"+","+","+"," ">>)
           THEN /\ Return(Propagate(Err("add line invalid"), todo_errors))
                /\ UNCHANGED <<current_file, todo_errors>>
           ELSE IF strip_prefix(Unwrap(x), <<"+","+","+"," ","b","/">>) = None
           THEN /\ Return(Panicked("strip_prefix(+++ b/).unwrap()"))
                /\ UNCHANGED <<current_file, todo_errors>>
           ELSE /\ current_file' = Unwrap(strip_prefix(Unwrap(x), <<"+","+","+"," ","b","/">>))
                /\ IF hunk = None
                   THEN pc' = "loop" /\ UNCHANGED <<run_result, todo_errors>>
                   ELSE HunkReturned
    /\ UNCHANGED <<current_patch_remove, current_patch_add, hunk, hunk_source,
                   matcher_vars, tracker_vars, scan_vars>>

\* the loop of process_spans: has_more, and the hunk header of read_hunk
\* (git_diff.rs 60-65, 140-199)
ReadHunkHeader ==
    /\ pc = "loop"
    /\ \E x \in Upcoming(AllLines) :
        /\ lines' = Taken(x)
        /\ IF x = None
           THEN /\ Return(Ok(todo_errors))
                /\ UNCHANGED <<current_patch_remove, current_patch_add, hunk, hunk_source>>
           ELSE LET header == ParseHunkHeader(Unwrap(x)) IN
                /\ hunk_source' = <<Unwrap(x)>>
                /\ IF header.status = "ok"
                   THEN /\ current_patch_remove' = header.value.remove
                        /\ current_patch_add' = header.value.add
                        /\ hunk' = Some(NewHunk(current_file))
                        /\ pc' = BodyPc(header.value.remove, header.value.add, 0, 0)
                        /\ run_result' = run_result
                   ELSE /\ Return(IF header.status = "err"
                                  THEN Propagate(header, todo_errors) ELSE header)
                        /\ UNCHANGED <<current_patch_remove, current_patch_add, hunk>>
    /\ UNCHANGED <<current_file, todo_errors, matcher_vars, tracker_vars, scan_vars>>

\* one iteration of the loop over the removed range (git_diff.rs 201-204)
ReadRemovedLine ==
    /\ pc = "removed"
    /\ \E x \in Upcoming(OtherLines) :
        /\ lines' = Taken(x)
        /\ IF x = None
           THEN /\ Return(Propagate(Err("missing removed line"), todo_errors))
                /\ UNCHANGED <<hunk, hunk_source>>
           ELSE IF Unwrap(x) = <<>>
           THEN /\ Return(Panicked("line[1..]"))
                /\ UNCHANGED <<hunk, hunk_source>>
           ELSE LET h == Unwrap(hunk)
                    r == current_patch_remove.start + Len(h.removed)
                IN  /\ hunk' = Some([h EXCEPT !.removed = Append(@, ChangedLine(Unwrap(x), r))])
                    /\ hunk_source' = Append(hunk_source, Unwrap(x))
                    /\ pc' = BodyPc(current_patch_remove, current_patch_add,
                                    Len(h.removed) + 1, 0)
                    /\ run_result' = run_result
    /\ UNCHANGED <<current_file, current_patch_remove, current_patch_add, todo_errors,
                   matcher_vars, tracker_vars, scan_vars>>

\* one iteration of the loop over the added range (git_diff.rs 206-209)
ReadAddedLine ==
    /\ pc = "added"
    /\ \E x \in Upcoming(OtherLines) :
        /\ lines' = Taken(x)
        /\ IF x = None
           THEN /\ Return(Propagate(Err("missing added line"), todo_errors))
                /\ UNCHANGED <<hunk, hunk_source>>
           ELSE IF Unwrap(x) = <<>>
           THEN /\ Return(Panicked("line[1..]"))
                /\ UNCHANGED <<hunk, hunk_source>>
           ELSE LET h == Unwrap(hunk)
                    r == current_patch_add.start + Len(h.added)
                IN  /\ hunk' = Some([h EXCEPT !.added = Append(@, ChangedLine(Unwrap(x), r))])
                    /\ hunk_source' = Append(hunk_source, Unwrap(x))
                    /\ pc' = BodyPc(current_patch_remove, current_patch_add,
                                    Len(h.removed), Len(h.added) + 1)
                    /\ run_result' = run_result
    /\ UNCHANGED <<current_file, current_patch_remove, current_patch_add, todo_errors,
                   matcher_vars, tracker_vars, scan_vars>>

\* after the body (git_diff.rs 211-220): a "diff " line ahead starts a new
\* file header; anything else, or the end of the text, ends read_hunk
AfterBody ==
    /\ pc = "after"
    /\ \E x \in Upcoming(AllLines) :
        /\ lines' = Peeked(x)
        /\ IF x # None /\ StartsWith(Unwrap(x), <<"d","i","f","f"," ">>)
           THEN pc' = "eat_file_header" /\ UNCHANGED <<run_result, todo_errors>>
           ELSE HunkReturned
    /\ UNCHANGED <<current_file, current_patch_remove, current_patch_add, hunk,
                   hunk_source, matcher_vars, tracker_vars, scan_vars>>

NextDiff ==
    \/ EatSourceLine
    \/ EatTargetLine
    \/ ReadHunkHeader
    \/ ReadRemovedLine
    \/ ReadAddedLine
    \/ AfterBody

SpecDiff == InitDiff /\ [][NextDiff]_vars

\* ------------------------------------------------------------------------
\* The FullTree specification: SourceTreeSimpleChecker::process_spans over
\* every tree, with the walker threads interleaved in every way
\* ------------------------------------------------------------------------

\* process_spans starts the walk over a tree (source_tree_simple.rs 20-32)
WalkNew ==
    /\ num_threads = Some(Ok(NumThreads))
    /\ tree \in Trees
    /\ walk_queue = DOMAIN tree
    /\ workers = [w \in Workers |-> Idle]
    /\ mutex = Unlocked
    /\ shared_todo_errors = <<>>
    /\ diagnostics = {}
    /\ walk_result = None

InitTree ==
    /\ MatcherIdle
    /\ TrackerNew
    /\ DiffNew
    /\ CommandsIdle
    /\ MainIdle
    /\ WalkNew

not_walk_vars == <<matcher_vars, tracker_vars, diff_vars, command_vars, main_vars>>

\* from_line on the line a worker stands at (source_tree_simple.rs 39-44)
LineFindings(w) ==
    FromLine(config, EntryPath(w.entry),
             Unwrap(tree[w.entry].contents)[w.row_zero_indexed + 1].text,
             RowOneIndexed(w.row_zero_indexed))

\* a walker thread takes the next entry and runs the closure up to its
\* first line (lines 33-38)
Visit(w) ==
    /\ walk_result = None
    /\ workers[w].pc = "idle"
    /\ \E k \in walk_queue :
        /\ walk_queue' = walk_queue \ {k}
        /\ workers' = [workers EXCEPT ![w] = Entered(k, tree[k])]
    /\ UNCHANGED <<num_threads, tree, mutex, shared_todo_errors, diagnostics, walk_result,
                   not_walk_vars>>

\* todo_errors.lock().unwrap(): blocks while another thread holds the lock,
\* and panics if the mutex is poisoned
Lock(w) ==
    /\ walk_result = None
    /\ workers[w].pc = "lines"
    /\ mutex.holder = None
    /\ IF mutex.poisoned
       THEN /\ workers' = [workers EXCEPT ![w] = Dead("lock")]
            /\ mutex' = mutex
       ELSE /\ workers' = [workers EXCEPT ![w].pc = "locked"]
            /\ mutex' = [mutex EXCEPT !.holder = Some(w)]
    /\ UNCHANGED <<num_threads, tree, walk_queue, shared_todo_errors, diagnostics,
                   walk_result, not_walk_vars>>

\* The findings of the line are appended and the guard is dropped; a panic
\* while the guard is alive poisons the mutex and ends the thread.
ExtendWith(w, found) ==
    IF found.status # "ok"
    THEN /\ workers' = [workers EXCEPT ![w] = Dead("from_line")]
         /\ mutex' = [holder |-> None, poisoned |-> TRUE]
         /\ shared_todo_errors' = shared_todo_errors
    ELSE /\ workers' = [workers EXCEPT
                           ![w] = AfterLine(@, Unwrap(tree[@.entry].contents))]
         /\ mutex' = [mutex EXCEPT !.holder = None]
         /\ shared_todo_errors' = Appended(shared_todo_errors, found.issues)

\* .extend(TodoError::from_line(..)) under the lock (lines 39-44)
Extend(w) ==
    /\ walk_result = None
    /\ workers[w].pc = "locked"
    /\ ExtendWith(w, LineFindings(workers[w]))
    /\ UNCHANGED <<num_threads, tree, walk_queue, diagnostics, walk_result, not_walk_vars>>

\* no thread is in the closure, and no entry is left or no thread is alive
Quiescent ==
    /\ \A w \in Workers : workers[w].pc \in {"idle", "dead"}
    /\ walk_queue = {} \/ \A w \in Workers : workers[w].pc = "dead"

\* run() returns and the Vec is taken out of the mutex (line 53); the walk
\* joins its threads, so a thread that panicked makes process_spans panic
Finish ==
    /\ walk_result = None
    /\ Quiescent
    /\ walk_result' =
          IF \E w \in Workers : workers[w].pc = "dead" THEN Panicked("walker thread")
          ELSE Ok(shared_todo_errors)
    /\ UNCHANGED <<num_threads, tree, walk_queue, workers, mutex, shared_todo_errors, diagnostics,
                   not_walk_vars>>

NextTree == \E w \in Workers : Visit(w) \/ Lock(w) \/ Extend(w) \/ Finish

SpecTree == InitTree /\ [][NextTree]_vars

\* ------------------------------------------------------------------------
\* The CommentAware specification: SourceTreeSyntectChecker::process_spans
\* over every tree, with the walker threads interleaved in every way
\* ------------------------------------------------------------------------

InitSyntect == InitTree

\* a walker thread takes the next entry and runs the closure up to its
\* first line (source_tree_syntect.rs 243-256)
VisitSyntect(w) ==
    /\ walk_result = None
    /\ workers[w].pc = "idle"
    /\ \E k \in walk_queue :
        /\ walk_queue' = walk_queue \ {k}
        /\ workers' = [workers EXCEPT ![w] = EnteredSyntect(k, tree[k])]
        /\ diagnostics' = diagnostics \cup Logged(k, tree[k])
    /\ UNCHANGED <<num_threads, tree, mutex, shared_todo_errors, walk_result, not_walk_vars>>

\* the tracker after the line a worker stands at (lines 258-266)
LineTracker(w, overflow_checks) ==
    ProcessOpsForLine(Unwrap(w.stack),
                      Unwrap(tree[w.entry].contents)[w.row_zero_indexed + 1].ops,
                      LineStart(Unwrap(tree[w.entry].contents), w.row_zero_indexed + 1),
                      overflow_checks)

\* The findings of the comments the line closed are appended and the guard
\* is dropped; a panic of the tracker or of from_line while the guard is
\* alive poisons the mutex and ends the thread.  After the last line the
\* closure returns and the tracker is dropped as it is.
ExtendSpans(w, t, found) ==
    IF t.panicked \/ found.status # "ok"
    THEN /\ workers' = [workers EXCEPT
                           ![w] = Dead(IF t.panicked THEN "process_ops_for_line"
                                       ELSE "from_line")]
         /\ mutex' = [holder |-> None, poisoned |-> TRUE]
         /\ shared_todo_errors' = shared_todo_errors
    ELSE /\ workers' = [workers EXCEPT
                           ![w] = AfterLine([@ EXCEPT !.stack = Some(t)],
                                            Unwrap(tree[@.entry].contents))]
         /\ mutex' = [mutex EXCEPT !.holder = None]
         /\ shared_todo_errors' = Appended(shared_todo_errors, found.issues)

\* (a faulty variant: after the last line of a file the comment that is
\* still open is classified as well, up to the end of the file)
ExtendTrackedFlushOpen(w, t) ==
    ExtendSpans(w, t,
        FromComments(config, EntryPath(workers[w].entry),
                     Unwrap(tree[workers[w].entry].contents),
                     IF /\ workers[w].row_zero_indexed + 1
                             = Len(Unwrap(tree[workers[w].entry].contents))
                        /\ ~t.panicked
                        /\ t.comment_level > 0
                     THEN Append(t.comments,
                                 [start |-> Unwrap(t.current_comment_start),
                                  end |-> FileLen(Unwrap(tree[workers[w].entry].contents))])
                     ELSE t.comments,
                     1))

ExtendTracked(w, t) ==
    ExtendSpans(w, t, FromComments(config, EntryPath(workers[w].entry),
                                   Unwrap(tree[workers[w].entry].contents), t.comments, 1))

\* .extend(stack.process_ops_for_line(..).flat_map(from_comment)) under the
\* lock (lines 257-269); overflow_checks is the build's choice
ExtendSyntect(w) ==
    /\ walk_result = None
    /\ workers[w].pc = "locked"
    /\ \E overflow_checks \in BOOLEAN : ExtendTracked(w, LineTracker(workers[w], overflow_checks))
    /\ UNCHANGED <<num_threads, tree, walk_queue, diagnostics, walk_result, not_walk_vars>>

NextSyntect == \E w \in Workers : VisitSyntect(w) \/ Lock(w) \/ ExtendSyntect(w) \/ Finish

SpecSyntect == InitSyntect /\ [][NextSyntect]_vars

\* ------------------------------------------------------------------------
\* The CommentAware specification over trees with a file whose tokens are
\* not balanced: the second line of UnbalancedSource pops a scope that was
\* never pushed
\* ------------------------------------------------------------------------

\* a one-line comment that is a forbidden keyword, then a line whose only
\* operation is a Pop on the empty stack
UnbalancedSource ==
    [is_file |-> TRUE, syntax |-> "by_name", contents |-> Some(<<
        SourceLineOf(UntrackedText, <<[off |-> 0, kind |-> "Push", scope |-> comment_block],
                                      [off |-> 1, kind |-> "Pop", count |-> 1]>>),
        SourceLineOf(PlainText, <<[off |-> 0, kind |-> "Pop", count |-> 1]>>) >>)]

UnbalancedEntries == {UnbalancedSource, UntrackedSource, OpenEndedSource}
UnbalancedTrees == UNION {[1..n -> UnbalancedEntries] : n \in 1..MaxEntries}

InitUnbalanced ==
    /\ MatcherIdle
    /\ TrackerNew
    /\ DiffNew
    /\ CommandsIdle
    /\ MainIdle
    /\ num_threads = Some(Ok(NumThreads))
    /\ tree \in UnbalancedTrees
    /\ walk_queue = DOMAIN tree
    /\ workers = [w \in Workers |-> Idle]
    /\ mutex = Unlocked
    /\ shared_todo_errors = <<>>
    /\ diagnostics = {}
    /\ walk_result = None

SpecUnbalanced == InitUnbalanced /\ [][NextSyntect]_vars

\* ------------------------------------------------------------------------
\* The worker pool specification: process_spans of the two source tree
\* checkers up to the size of the pool, for every tree, every number of
\* CPUs and both kinds of build
\* ------------------------------------------------------------------------

InitPool ==
    /\ MatcherIdle
    /\ TrackerNew
    /\ DiffNew
    /\ CommandsIdle
    /\ MainIdle
    /\ num_threads = None
    /\ tree \in Trees
    /\ walk_queue = {}
    /\ workers = [w \in Workers |-> Idle]
    /\ mutex = Unlocked
    /\ shared_todo_errors = <<>>
    /\ diagnostics = {}
    /\ walk_result = None

\* let num_threads = num_cpus::get() - 2 (source_tree_simple.rs 23,
\* source_tree_syntect.rs 231); a panic here is the end of process_spans
SizePool ==
    /\ num_threads = None
    /\ \E cpus \in Cpus : \E overflow_checks \in BOOLEAN :
        /\ num_threads' = Some(NumThreadsOf(cpus, overflow_checks))
        /\ walk_result' = IF NumThreadsOf(cpus, overflow_checks).status = "ok"
                          THEN walk_result
                          ELSE NumThreadsOf(cpus, overflow_checks)
    /\ UNCHANGED <<tree, walk_queue, workers, mutex, shared_todo_errors, diagnostics,
                   not_walk_vars>>

NextPool == SizePool

SpecPool == InitPool /\ [][NextPool]_vars

\* ------------------------------------------------------------------------
\* The CommentAware specification over trees with a comment of several
\* lines that starts below the first line of its file
\* ------------------------------------------------------------------------

\* a line of code, then a comment of three lines: a forbidden keyword, a
\* blank line, and a tracked marker
MultilineSource ==
    [is_file |-> TRUE, syntax |-> "by_name", contents |-> Some(<<
        SourceLineOf(PlainText, <<>>),
        SourceLineOf(UntrackedText, <<[off |-> 0, kind |-> "Push", scope |-> comment_block]>>),
        SourceLineOf(<<" ">>, <<>>),
        SourceLineOf(TrackedText, <<[off |-> 5, kind |-> "Pop", count |-> 1]>>) >>)]

MultilineEntries == {MultilineSource, UntrackedSource}
MultilineTrees == UNION {[1..n -> MultilineEntries] : n \in 1..MaxEntries}

InitMultiline ==
    /\ MatcherIdle
    /\ TrackerNew
    /\ DiffNew
    /\ CommandsIdle
    /\ MainIdle
    /\ num_threads = Some(Ok(NumThreads))
    /\ tree \in MultilineTrees
    /\ walk_queue = DOMAIN tree
    /\ workers = [w \in Workers |-> Idle]
    /\ mutex = Unlocked
    /\ shared_todo_errors = <<>>
    /\ diagnostics = {}
    /\ walk_result = None

SpecMultiline == InitMultiline /\ [][NextSyntect]_vars

\* ------------------------------------------------------------------------
\* The specification of main's scan (main.rs 228-290), for every tree and
\* both report kinds
\* ------------------------------------------------------------------------

InitMain ==
    /\ MatcherIdle
    /\ TrackerNew
    /\ DiffNew
    /\ CommandsIdle
    /\ num_threads = None
    /\ tree \in Trees
    /\ walk_queue = {}
    /\ workers = [w \in Workers |-> Idle]
    /\ mutex = Unlocked
    /\ shared_todo_errors = <<>>
    /\ diagnostics = {}
    /\ walk_result = None
    /\ report_kind \in ReportKinds
    /\ next_entry = 1
    /\ file_scan = None
    /\ has_untracked = FALSE
    /\ issues_found_count = 0
    /\ stderr = <<>>
    /\ main_result = None

not_main_vars == <<matcher_vars, tracker_vars, diff_vars, command_vars, walk_vars>>

\* The loop takes the next entry (main.rs 234-245): a directory and a file
\* without a grammar are passed over; find_syntax_for_file(..).expect(..)
\* panics on an error, read_to_string(..)? returns the error.
MainVisit ==
    /\ main_result = None
    /\ file_scan = None
    /\ next_entry <= Len(tree)
    /\ LET e == tree[next_entry]
           syntax == find_syntax_for_file(e)
       IN  IF e.is_file /\ syntax.status = "err"
           THEN /\ main_result' = Some(Panicked("opening source file should work"))
                /\ UNCHANGED <<next_entry, file_scan>>
           ELSE IF e.is_file /\ syntax.value # None /\ e.contents = None
           THEN /\ main_result' = Some(Err("io"))
                /\ UNCHANGED <<next_entry, file_scan>>
           ELSE IF e.is_file /\ syntax.value # None /\ Unwrap(e.contents) # <<>>
           THEN /\ file_scan' = Some([entry |-> next_entry, row_zero_indexed |-> 0,
                                      stack |-> Some(NewStack(FileLen(Unwrap(e.contents))))])
                /\ UNCHANGED <<next_entry, main_result>>
           ELSE /\ next_entry' = next_entry + 1
                /\ UNCHANGED <<file_scan, main_result>>
    /\ UNCHANGED <<report_kind, has_untracked, issues_found_count, stderr, not_main_vars>>

\* The body of the inner for (main.rs 268-273) for the findings of a line
\* that pass the filter: the first `written` of them are written and
\* counted; write_error(..)? returns the error of a write that fails.
MainWritten(t, reported, written) ==
    /\ stderr' = stderr \o SubSeq(reported, 1, written)
    /\ issues_found_count' = issues_found_count + written
    /\ has_untracked' = FlaggedAfter(has_untracked, reported, written)
    /\ IF written < Len(reported)
       THEN /\ main_result' = Some(Err("io"))
            /\ UNCHANGED <<next_entry, file_scan>>
       ELSE /\ main_result' = None
            /\ IF Unwrap(file_scan).row_zero_indexed + 1
                     = Len(Unwrap(tree[next_entry].contents))
               THEN /\ file_scan' = None
                    /\ next_entry' = next_entry + 1
               ELSE /\ file_scan' = Some([Unwrap(file_scan) EXCEPT
                                             !.row_zero_indexed = @ + 1,
                                             !.stack = Some(t)])
                    /\ next_entry' = next_entry

MainFound(t, found) ==
    IF t.panicked \/ found.status # "ok"
    THEN /\ main_result' = Some(Panicked(IF t.panicked THEN "process_ops_for_line"
                                         ELSE "from_line"))
         /\ UNCHANGED <<next_entry, file_scan, has_untracked, issues_found_count, stderr>>
    ELSE \E written \in 0..Len(Filtered(report_kind, found.issues)) :
            MainWritten(t, Filtered(report_kind, found.issues), written)

MainTracked(t) ==
    MainFound(t, FromComments(config, EntryPath(next_entry),
                              Unwrap(tree[next_entry].contents), t.comments, 1))

\* one line of the file (main.rs 246-274)
MainLine ==
    /\ main_result = None
    /\ file_scan # None
    /\ \E overflow_checks \in BOOLEAN :
          MainTracked(LineTracker(Unwrap(file_scan), overflow_checks))
    /\ UNCHANGED <<report_kind, not_main_vars>>

\* after the loop (main.rs 282-290)
MainFinish ==
    /\ main_result = None
    /\ file_scan = None
    /\ next_entry > Len(tree)
    /\ main_result' = Some(IF has_untracked THEN Err(UntrackedIssuesFound) ELSE Ok(<<>>))
    /\ UNCHANGED <<report_kind, next_entry, file_scan, has_untracked, issues_found_count,
                   stderr, not_main_vars>>

NextMain == MainVisit \/ MainLine \/ MainFinish

SpecMain == InitMain /\ [][NextMain]_vars

\* ------------------------------------------------------------------------
\* The DiffScoped command specification: GitDiffChecker::process_spans up
\* to the call of UnifiedDiffParser::new (git_diff.rs 16-56), for every
\* output and every failure of the commands
\* ------------------------------------------------------------------------

InitCommands ==
    /\ MatcherIdle
    /\ TrackerNew
    /\ pc = "git_remote"
    /\ lines = [peeked |-> None, taken |-> 0, eof |-> FALSE]
    /\ current_file = <<>>
    /\ current_patch_remove = [start |-> 0, end |-> 0]
    /\ current_patch_add = [start |-> 0, end |-> 0]
    /\ hunk = None
    /\ hunk_source = <<>>
    /\ todo_errors = <<>>
    /\ run_result = None
    /\ CommandsIdle
    /\ WalkIdle
    /\ MainIdle

not_command_vars == <<lines, current_file, current_patch_remove, current_patch_add, hunk,
                      hunk_source, todo_errors, matcher_vars, tracker_vars, walk_vars,
                      main_vars>>

\* a command is run and read()? looks at its result
Ran(command, result, next) ==
    /\ commands' = Append(commands, command)
    /\ pc' = Try(result, next)
    /\ run_result' = IF result.status = "ok" THEN run_result ELSE Some(result)

\* git remote -v (lines 17-28)
RunGitRemote ==
    /\ pc = "git_remote"
    /\ \E result \in Reads(RemoteOutputs) :
        /\ Ran(GitRemote, result, "git_remote_show")
        /\ remote' = IF result.status = "ok" THEN Some(RemoteOf(result.value)) ELSE remote
    /\ UNCHANGED <<remote_ref, fork_point, diff, not_command_vars>>

\* git remote show <remote> (lines 30-46)
RunGitRemoteShow ==
    /\ pc = "git_remote_show"
    /\ \E result \in Reads(ShowOutputs) :
        /\ Ran(GitRemoteShow(Unwrap(remote)), result, "git_merge_base")
        /\ remote_ref' = IF result.status = "ok"
                         THEN Some(RemoteRef(Unwrap(remote), BranchOf(result.value)))
                         ELSE remote_ref
    /\ UNCHANGED <<remote, fork_point, diff, not_command_vars>>

\* git merge-base --fork-point <remote_ref> (lines 48-49)
RunGitMergeBase ==
    /\ pc = "git_merge_base"
    /\ \E result \in Reads(ForkPoints) :
        /\ Ran(GitMergeBase(Unwrap(remote_ref)), result, "git_diff")
        /\ fork_point' = IF result.status = "ok" THEN Some(result.value) ELSE fork_point
    /\ UNCHANGED <<remote, remote_ref, diff, not_command_vars>>

\* git diff --unified=0 <fork_point> (lines 51-54); after it process_spans
\* stands at UnifiedDiffParser::new (line 56)
RunGitDiff ==
    /\ pc = "git_diff"
    /\ \E result \in Reads(DiffOutputs) :
        /\ Ran(GitDiff(Unwrap(fork_point)), result, "eat_file_header")
        /\ diff' = IF result.status = "ok" THEN Some(result.value) ELSE diff
    /\ UNCHANGED <<remote, remote_ref, fork_point, not_command_vars>>

NextCommands == RunGitRemote \/ RunGitRemoteShow \/ RunGitMergeBase \/ RunGitDiff

SpecCommands == InitCommands /\ [][NextCommands]_vars

\* ------------------------------------------------------------------------
\* The well-formed diff specification: process_spans from
\* UnifiedDiffParser::new on, over the diff texts git writes for one or
\* more files with one or more hunks each
\* ------------------------------------------------------------------------

InitPatch ==
    /\ MatcherIdle
    /\ TrackerNew
    /\ DiffNew
    /\ commands = <<>>
    /\ remote = None
    /\ remote_ref = None
    /\ fork_point = None
    /\ diff \in {Some(text) : text \in DiffTexts}
    /\ WalkIdle
    /\ MainIdle

SpecPatch == InitPatch /\ [][NextDiff]_vars

\* ---- claims about the tracker

IsComment(scope) == is_prefix_of(prefix_scope, scope)
LastOp == Unwrap(op')
At == original_line.start + LastOp.off
Emitted == Len(comments') > Len(comments)
Top == scopes_stack[Len(scopes_stack)]

\* C4: a span is emitted only by a Pop that brings comment_level to 0, never
\* by a step that leaves comment_level above 0.  Nested comments on one line,
\* Push(comment) Push(comment) Pop(1) Pop(1), give one span from the first
\* Push to the last Pop: the Push at level 0 records its offset, the Push at
\* level 1 keeps it, the Pop that leaves level 1 emits nothing, and the Pop
\* that leaves level 0 emits [recorded start, its offset).
C4_SpanOnlyAtLevelZero ==
    [][ /\ Emitted => (LastOp.kind = "Pop" /\ comment_level > 0 /\ comment_level' = 0)
        /\ (op' # None /\ LastOp.kind = "Push" /\ IsComment(LastOp.scope)) =>
              /\ comments' = comments
              /\ comment_level' = comment_level + 1
              /\ current_comment_start' =
                    IF comment_level = 0 THEN Some(At) ELSE current_comment_start
        /\ (op' # None /\ LastOp.kind = "Pop" /\ LastOp.count = 1
             /\ scopes_stack # <<>> /\ IsComment(Top)) =>
              /\ comment_level' = comment_level - 1
              /\ comments' =
                    IF comment_level = 1
                    THEN Append(comments, [start |-> Unwrap(current_comment_start),
                                           end |-> At])
                    ELSE comments
      ]_vars

\* a Pop has closed the comment opened at the start of the line: one span,
\* from offset 0 to the Pop's offset 1, at level 0
C4_Witness ==
    /\ op # None
    /\ Unwrap(op).kind = "Pop"
    /\ Unwrap(op).off = 1
    /\ ~tracker_panicked
    /\ comment_level = 0
    /\ scopes_stack = <<>>
    /\ comments = <<[start |-> original_line.start, end |-> original_line.start + 1]>>

\* C5: comment_level = 0 implies current_comment_start = None.
\* (stated as claimed; the code keeps the start after the closing Pop)
C5_StartClearedAtLevelZero ==
    comment_level = 0 => current_comment_start = None

\* the step is an iteration of the loop on a pair of the given kind
Did(kind) == op' # None /\ LastOp.kind = kind

\* C14: a Pop(count) with count above the length of the live scope stack, and
\* a Restore while the cleared stack is empty, each end in a panic; the call
\* does not return (no span is returned from it) and nothing is processed
\* after it.
C14_UnbalancedIsFatal ==
    [][ /\ ~tracker_panicked
        /\ (Did("Pop") /\ LastOp.count > Len(scopes_stack)) => tracker_panicked'
        /\ (Did("Restore") /\ cleared_scopes_stack = <<>>) => tracker_panicked'
        /\ tracker_panicked' => op' # None
      ]_vars

\* Pop(2) on a live stack of one comment scope: the span of the first
\* iteration is in the local Vec when the second iteration panics
C14_Witness ==
    /\ tracker_panicked
    /\ Unwrap(op).kind = "Pop"
    /\ Unwrap(op).count = 2
    /\ scopes_stack = <<>>
    /\ Len(comments) = 1

\* C19: a comment Push at level 0 records line start + offset as the start;
\* while the level stays above 0 the start is kept (a comment Push at a
\* level above 0 included) and no span is emitted, so the calls for the lines
\* in between return none; the Pop that brings the level back to 0 appends
\* exactly one span, [recorded start, line start + offset), to the spans of
\* the call for its line.
C19_OneSpanPerComment ==
    [][ /\ (Did("Push") /\ IsComment(LastOp.scope) /\ comment_level = 0) =>
              /\ current_comment_start' = Some(At)
              /\ comment_level' = 1
              /\ comments' = comments
        /\ (comment_level > 0 /\ comment_level' > 0) =>
              /\ current_comment_start' = current_comment_start
              /\ comments' = IF op' = None THEN <<>> ELSE comments
        /\ (comment_level > 0 /\ comment_level' = 0 /\ ~tracker_panicked') =>
              /\ Did("Pop")
              /\ comments' = Append(comments, [start |-> Unwrap(current_comment_start),
                                               end |-> At])
      ]_vars

\* a comment opened at offset 0 of the first line and closed at offset 1 of
\* the third: the call for the third line holds the one span [0, 3)
C19_Witness ==
    /\ original_line.start = 2 * LineLen
    /\ comment_level = 0
    /\ ~tracker_panicked
    /\ comments = <<[start |-> 0, end |-> 2 * LineLen + 1]>>

Min(a, b) == IF a <= b THEN a ELSE b

\* the number of scopes a Clear(amount) takes off a live stack of len scopes
Taken_off(amount, len) ==
    IF "all" \in DOMAIN amount THEN len ELSE Min(amount.top_n, len)

\* C20: Clear(TopN(n)) takes the top min(n, stack_len) scopes off the live
\* stack and pushes them, in stack order, as one frame on the cleared stack;
\* it does not fail when n exceeds the length, and pushes an empty frame
\* when it takes nothing; Clear(All) moves the whole live stack.  Every
\* Clear adds exactly one frame.
C20_ClearMovesTop ==
    [][ Did("Clear") =>
          LET len == Len(scopes_stack)
              n == Taken_off(LastOp.amount, len)
          IN  /\ ~tracker_panicked'
              /\ scopes_stack' = SubSeq(scopes_stack, 1, len - n)
              /\ cleared_scopes_stack' =
                     Append(cleared_scopes_stack, SubSeq(scopes_stack, len - n + 1, len))
              /\ comment_level' = comment_level
      ]_vars

\* Clear(TopN(2)) on a live stack of one scope: the frame holds that scope
C20_Witness ==
    /\ op # None
    /\ Unwrap(op).kind = "Clear"
    /\ Unwrap(op).amount = [top_n |-> 2]
    /\ scopes_stack = <<>>
    /\ cleared_scopes_stack = << <<(<<"comment", "block">>)>> >>

\* the tracker after Clear(amount) and then Restore
ClearRestore(t, amount) == ApplyRestore(ApplyClear(t, amount))

\* C21: Restore takes the frame pushed last off the cleared stack and
\* appends its scopes to the live stack in their order; so from every state
\* of the tracker and for every amount, Clear followed at once by Restore
\* leaves the live stack and the cleared stack (and every other field) as
\* they were, and so does Clear, Clear, Restore, Restore.
C21_RestoreUndoesClear ==
    /\ [](~tracker_panicked =>
            /\ \A amount \in ClearAmounts : ClearRestore(Tracker, amount) = Tracker
            /\ \A outer \in ClearAmounts :
                  LET cleared == ApplyClear(Tracker, outer)
                  IN  \A inner \in ClearAmounts :
                         ApplyRestore(ClearRestore(cleared, inner)) = Tracker)
    /\ [][ (Did("Restore") /\ cleared_scopes_stack # <<>>) =>
              /\ ~tracker_panicked'
              /\ scopes_stack' =
                    scopes_stack \o cleared_scopes_stack[Len(cleared_scopes_stack)]
              /\ cleared_scopes_stack' =
                    SubSeq(cleared_scopes_stack, 1, Len(cleared_scopes_stack) - 1)
              /\ comment_level' = comment_level ]_vars

\* a Restore has put two cleared scopes back on the live stack, the
\* comment scope above the source scope as before the Clear
C21_Witness ==
    /\ op # None
    /\ Unwrap(op).kind = "Restore"
    /\ ~tracker_panicked
    /\ scopes_stack = << <<"source", "rust">>, <<"comment", "block">> >>
    /\ cleared_scopes_stack = <<>>
    /\ comment_level = 1

\* the number of comment scopes in the sequence of scopes s
RECURSIVE CommentScopes(_)
CommentScopes(s) ==
    IF s = <<>> THEN 0
    ELSE (IF IsComment(s[1]) THEN 1 ELSE 0) + CommentScopes(SubSeq(s, 2, Len(s)))

\* the number of comment scopes in the frames of the cleared stack c
RECURSIVE ClearedCommentScopes(_)
ClearedCommentScopes(c) ==
    IF c = <<>> THEN 0
    ELSE CommentScopes(c[1]) + ClearedCommentScopes(SubSeq(c, 2, Len(c)))

\* C30: as long as no step has panicked, comment_level is the number of
\* comment scopes on the live stack plus those in the frames of the cleared
\* stack; so the decrement of Pop is never applied to level 0 (the level
\* never wraps, and no Pop panics on the subtraction).
C30_LevelCountsCommentScopes ==
    /\ [](~tracker_panicked =>
            comment_level = CommentScopes(scopes_stack)
                            + ClearedCommentScopes(cleared_scopes_stack))
    /\ [](comment_level \in 0..MaxScopes)
    /\ [][ (Did("Pop") /\ LastOp.count <= Len(scopes_stack)) => ~tracker_panicked' ]_vars

\* one comment scope in a cleared frame and one on the live stack: level 2
C30_Witness ==
    /\ ~tracker_panicked
    /\ comment_level = 2
    /\ scopes_stack = << <<"comment", "block">> >>
    /\ cleared_scopes_stack = << << <<"comment", "block">> >> >>

\* ---- claims about the diff parser

\* the pieces of a hunk header line between spaces, after "@@ "
HeaderParts(l) == Split(SliceFrom(l, 3), " ")

\* the header line of the hunk being read
Header == hunk_source[1]

\* read_hunk has read the hunk header and stands in or after the body
InHunk == pc \in {"removed", "added", "after"}

Declared(range) == range.end - range.start

\* the diff line behind the i-th removed and the i-th added line of the hunk
RemovedSource(i) == hunk_source[1 + i]
AddedSource(i) == hunk_source[1 + Declared(current_patch_remove) + i]

\* the hunk has as many removed and added lines as the header declares, rows
\* counting up from the ranges' starts, under the active path
HunkAsDeclared ==
    LET h == Unwrap(hunk)
    IN  /\ h.file = current_file
        /\ Len(h.removed) = Declared(current_patch_remove)
        /\ Len(h.added) = Declared(current_patch_add)
        /\ \A i \in DOMAIN h.removed : h.removed[i].row = current_patch_remove.start + i - 1
        /\ \A i \in DOMAIN h.added : h.added[i].row = current_patch_add.start + i - 1

\* C6 (as stated): when read_hunk has read the body a hunk header declares,
\* the hunk it returns has the active path as file, exactly n1 removed and n2
\* added lines, the i-th added line with row r2+i and with the text of its
\* diff line minus the one-character prefix.
C6_HunkTextMinusPrefix ==
    pc = "after" =>
        /\ HunkAsDeclared
        /\ \A i \in DOMAIN Unwrap(hunk).added :
               Unwrap(hunk).added[i].line = SliceFrom(AddedSource(i), 1)

\* C6 (amended): when read_hunk has read the body a hunk header declares, the
\* hunk it returns has the active path as file, exactly n1 removed and n2
\* added lines, the i-th line of either kind with the row of its range's
\* start plus i and with the text of its diff line minus the one-character
\* prefix and minus its trailing whitespace; a range of length 0 contributes
\* no lines.
C6_HunkAsDeclared ==
    pc = "after" =>
        /\ HunkAsDeclared
        /\ \A i \in DOMAIN Unwrap(hunk).removed :
               Unwrap(hunk).removed[i].line = TrimEnd(SliceFrom(RemovedSource(i), 1))
        /\ \A i \in DOMAIN Unwrap(hunk).added :
               Unwrap(hunk).added[i].line = TrimEnd(SliceFrom(AddedSource(i), 1))

\* the diff "--- a/f / +++ b/f / @@ -1,0 +2,2 @@ / +x / +y" has been read
C6_Witness ==
    /\ pc = "after"
    /\ lines.taken = 5
    /\ hunk_source = <<HunkHeader(<<"-","1",",","0">>, <<"+","2",",","2">>),
                       <<"+","x">>, <<"+","y">>>>
    /\ hunk = Some([file |-> <<"f">>, removed |-> <<>>,
                    added |-> <<[line |-> <<"x">>, row |-> 2],
                                [line |-> <<"y">>, row |-> 3]>>])

\* the header's side has no ",<n>"
LengthOmitted(part) == Len(Split(part, ",")) = 1

\* C7: a side of the hunk header whose ",<n>" is omitted gets length 1, and
\* read_hunk then takes exactly that many body lines: "@@ -5 +5,3 @@" gives
\* the removed range [5,6) and the added range [5,8), 1 removed line and 3
\* added lines.
C7_OmittedLengthIsOne ==
    InHunk =>
        /\ LengthOmitted(HeaderParts(Header)[1]) => Declared(current_patch_remove) = 1
        /\ LengthOmitted(HeaderParts(Header)[2]) => Declared(current_patch_add) = 1
        /\ Len(Unwrap(hunk).removed) <= Declared(current_patch_remove)
        /\ Len(Unwrap(hunk).added) <= Declared(current_patch_add)
        /\ pc = "after" => Len(hunk_source) = 1 + Declared(current_patch_remove)
                                                + Declared(current_patch_add)
        /\ Header = HunkHeader(<<"-","5">>, <<"+","5",",","3">>) =>
               /\ current_patch_remove = [start |-> 5, end |-> 6]
               /\ current_patch_add = [start |-> 5, end |-> 8]

\* the body of "@@ -5 +5,3 @@" has been read: 1 removed line, 3 added lines
C7_Witness ==
    /\ pc = "after"
    /\ Header = HunkHeader(<<"-","5">>, <<"+","5",",","3">>)
    /\ Len(Unwrap(hunk).removed) = 1
    /\ Len(Unwrap(hunk).added) = 3
    /\ Len(hunk_source) = 5

\* a numeric field of the side is present and does not parse
FieldUnparsable(part) ==
    /\ Len(part) > 0
    /\ \E k \in DOMAIN Split(SliceFrom(part, 1), ",") :
           k <= 2 /\ ParseUsize(Split(SliceFrom(part, 1), ",")[k]) = None

\* C8: whenever a numeric field of the hunk header (a start row, or a length
\* after the comma) is present and does not parse, read_hunk fails with an
\* error; it never goes on with the default length 1.
C8_UnparsableFieldIsError ==
    (hunk_source # <<>> /\ Len(HeaderParts(Header)) >= 2
        /\ (FieldUnparsable(HeaderParts(Header)[1]) \/ FieldUnparsable(HeaderParts(Header)[2])))
    => (pc = "done" /\ Unwrap(run_result).status = "err")

\* C9: file-header parsing either sets the active file from a "--- " line and
\* the "+++ b/<path>" line after it, or returns an error value; it never
\* crashes, a "+++ " line whose target does not start with "b/" included.
C9_FileHeaderNeverCrashes ==
    run_result # None => Unwrap(run_result) # Panicked("strip_prefix(+++ b/).unwrap()")

\* C10: if the diff text ends while read_hunk is reading the body lines the
\* hunk header declares, read_hunk returns an error and process_spans ends
\* with that error, not with findings.
C10_ShortBodyIsError ==
    [][(pc \in {"removed", "added"} /\ lines'.eof)
        => /\ pc' = "done"
           /\ run_result' \in {Some(Err("missing removed line")),
                               Some(Err("missing added line"))}]_vars

\* the text ended in the body of a second hunk: the findings of the first
\* hunk are dropped and the error is the outcome
C10_Witness ==
    /\ pc = "done"
    /\ lines.eof
    /\ todo_errors # <<>>
    /\ Len(Unwrap(hunk).added) < Declared(current_patch_add)
    /\ run_result = Some(Err("missing added line"))

\* ---- claims about the FullTree scan

\* the findings from_line gives for the lines of file k from row r on, each
\* line with its 1-indexed position as the row
RECURSIVE FromRow(_, _)
FromRow(k, r) ==
    IF r > Len(Unwrap(tree[k].contents)) THEN <<>>
    ELSE FromLine(config, EntryPath(k), Unwrap(tree[k].contents)[r].text, r).issues
         \o FromRow(k, r + 1)

Readable(k) == tree[k].is_file /\ tree[k].contents # None

\* what a scan owes for entry k: nothing for a directory or an unreadable file
OwedFor(k) == IF Readable(k) THEN FromRow(k, 1) ELSE <<>>

RECURSIVE OwedFrom(_)
OwedFrom(k) == IF k > Len(tree) THEN <<>> ELSE OwedFor(k) \o OwedFrom(k + 1)

\* some line of some readable file makes from_line panic
SomeLinePanics ==
    \E k \in DOMAIN tree :
        /\ Readable(k)
        /\ \E r \in DOMAIN Unwrap(tree[k].contents) :
              FromLine(config, EntryPath(k), Unwrap(tree[k].contents)[r].text, r).status
                 = "panic"

Count(x, s) == Cardinality({i \in DOMAIN s : s[i] = x})
SameBag(a, b) ==
    /\ Len(a) = Len(b)
    /\ \A x \in Range(a) \cup Range(b) : Count(x, a) = Count(x, b)

\* C11: for a fixed tree and rule set the outcome of the FullTree scan does
\* not depend on how the walker threads interleave: a returned list holds
\* every finding of every line of every readable file exactly once and
\* nothing else, in whatever order; and whether the scan returns at all is
\* decided by the tree alone (it does not when some line panics).
C11_SameFindingsEveryInterleaving ==
    walk_result # None =>
        IF SomeLinePanics THEN walk_result.status = "panic"
        ELSE /\ walk_result.status = "ok"
             /\ SameBag(walk_result.value, OwedFrom(1))

\* two threads took turns: a finding of the second file lies between the
\* two findings of the first
C11_Witness ==
    /\ walk_result # None
    /\ walk_result.status = "ok"
    /\ Len(walk_result.value) = 3
    /\ walk_result.value[1].file_path = EntryPath(1)
    /\ walk_result.value[2].file_path = EntryPath(2)
    /\ walk_result.value[3].file_path = EntryPath(1)

\* the findings of the list s that belong to entry k, in the order of s
OfFile(s, k) ==
    LET Belongs(e) == e.file_path = EntryPath(k)
    IN  SelectSeq(s, Belongs)

\* C12: the FullTree scan classifies every line of every readable file with
\* the line's 1-indexed position as the row: the findings returned for a
\* file are exactly those of from_line over its lines, first line first.
C12_EveryLineWithItsRow ==
    (walk_result # None /\ walk_result.status = "ok") =>
        \A k \in DOMAIN tree : OfFile(walk_result.value, k) = OwedFor(k)

\* a file of two lines, a tracked marker then a bare keyword: one tracked
\* finding at row 1 and one untracked finding at row 2
C12_Witness ==
    /\ walk_result # None
    /\ walk_result.status = "ok"
    /\ tree = <<OpenEndedSource>>
    /\ Len(walk_result.value) = 2
    /\ walk_result.value[1].tracking_id = Some(<<"7">>)
    /\ walk_result.value[1].message = <<"f">>
    /\ walk_result.value[1].row = 1
    /\ walk_result.value[2].tracking_id = None
    /\ walk_result.value[2].row = 2

\* ---- claims about unreadable files and about the end of a file

\* C15: a file that cannot be read as text is skipped silently by both tree
\* scans, also when its name selects a grammar: the thread that takes it
\* goes on to the next entry, nothing is appended and the mutex is untouched.
C15_UnreadableFileIsSkipped ==
    [][ \A k \in walk_queue :
            (k \notin walk_queue' /\ tree[k].is_file /\ tree[k].contents = None) =>
                /\ workers' = workers
                /\ shared_todo_errors' = shared_todo_errors
                /\ mutex' = mutex ]_vars

\* non-zero comment nesting or a non-empty cleared stack
Unbalanced(t) == t.comment_level # 0 \/ t.cleared_scopes_stack # <<>>

IsPrefix(a, b) == Len(a) <= Len(b) /\ SubSeq(b, 1, Len(a)) = a

\* C16: when a thread of the CommentAware scan finishes the last line of a
\* file and the tracker is left unbalanced, a warning is logged and the run
\* goes on: the thread is free for the next entry, the findings collected
\* so far are kept and the entries not yet taken stay to be scanned.
C16_UnbalancedEndIsWarning ==
    [][ \A w \in Workers :
            (/\ workers[w].pc = "locked"
             /\ workers'[w].pc = "idle"
             /\ Unbalanced(LineTracker(workers[w], TRUE))) =>
                /\ \E d \in diagnostics' \ diagnostics : d[1] = "warn"
                /\ walk_result' = None
                /\ walk_queue' = walk_queue
                /\ IsPrefix(shared_todo_errors, shared_todo_errors') ]_vars

\* ---- claims about the outcome of the run

\* the findings a complete scan of file k produces from line r on, the
\* tracker being t before that line
RECURSIVE ProducedFrom(_, _, _)
RECURSIVE ProducedAfter(_, _, _)
ProducedFrom(k, r, t) ==
    IF r > Len(Unwrap(tree[k].contents)) THEN <<>>
    ELSE ProducedAfter(k, r, ProcessOpsForLine(t, Unwrap(tree[k].contents)[r].ops,
                                               LineStart(Unwrap(tree[k].contents), r), TRUE))
ProducedAfter(k, r, t) ==
    FromComments(config, EntryPath(k), Unwrap(tree[k].contents), t.comments, 1).issues
    \o ProducedFrom(k, r + 1, t)

\* the findings a complete scan produces from entry k on: those of the
\* readable files a grammar is found for
RECURSIVE ProducedFromEntry(_)
ProducedFromEntry(k) ==
    IF k > Len(tree) THEN <<>>
    ELSE (IF Readable(k) /\ tree[k].syntax # "none"
          THEN ProducedFrom(k, 1, NewStack(FileLen(Unwrap(tree[k].contents))))
          ELSE <<>>)
         \o ProducedFromEntry(k + 1)

SomeUntracked(issues) == \E i \in DOMAIN issues : issues[i].tracking_id = None

\* the outcome the claim gives a run that has written the findings s
OutcomeFor(s) == IF SomeUntracked(s) THEN Err(UntrackedIssuesFound) ELSE Ok(<<>>)

\* C13 (as stated): the run ends in the failure `untracked issues found`
\* if and only if an untracked finding was produced during the scan, and in
\* success otherwise; under either report kind every untracked finding
\* produced has been written, so the written findings tell which it is.
C13_FailsIffUntracked ==
    main_result # None => Unwrap(main_result) = OutcomeFor(stderr)

\* C13 (scans that reach the end of the tree only): when the loop has gone
\* through every entry without an error or a panic, the run ends
\* in the failure `untracked issues found` if and only if the scan produced
\* an untracked finding, and in success otherwise; the findings written are
\* those produced, in order, less the tracked ones under report kind
\* Untracked, and as many are counted; the report kind has no part in the
\* outcome.
C13_FailsIffUntrackedWhenComplete ==
    (main_result # None /\ next_entry > Len(tree)) =>
        /\ Unwrap(main_result) = OutcomeFor(ProducedFromEntry(1))
        /\ stderr = (IF report_kind = "All" THEN ProducedFromEntry(1)
                     ELSE LET Untracked(e) == e.tracking_id = None
                          IN  SelectSeq(ProducedFromEntry(1), Untracked))
        /\ issues_found_count = Len(stderr)

\* a tracked and an untracked finding under report kind Untracked: one
\* finding written and counted, and the run fails
C13_Witness ==
    /\ main_result = Some(Err(UntrackedIssuesFound))
    /\ report_kind = "Untracked"
    /\ tree = <<OpenEndedSource, UntrackedSource>>
    /\ issues_found_count = 1
    /\ Len(stderr) = 1
    /\ stderr[1].tracking_id = None

\* ---- claims about the commands of DiffScoped

\* the commands in the order of the code, with the arguments computed so far
InOrder ==
    <<GitRemote>>
    \o (IF remote = None THEN <<>> ELSE <<GitRemoteShow(Unwrap(remote))>>)
    \o (IF remote_ref = None THEN <<>> ELSE <<GitMergeBase(Unwrap(remote_ref))>>)
    \o (IF fork_point = None THEN <<>> ELSE <<GitDiff(Unwrap(fork_point))>>)

\* how many commands have returned successfully
Succeeded ==
    Cardinality({v \in {<<1, remote>>, <<2, remote_ref>>, <<3, fork_point>>, <<4, diff>>} :
                    v[2] # None})

\* C17: DiffScoped issues its commands in the order list remotes, show
\* remote, merge-base fork point, zero-context diff, each only after the one
\* before it has returned successfully; when a command fails no later
\* command is issued, the diff is not parsed and the run returns an error
\* with no findings.
C17_CommandsInOrder ==
    /\ [](/\ IsPrefix(commands, InOrder)
          /\ Len(commands) \in {Succeeded, Succeeded + 1}
          /\ run_result = None => Len(commands) = Succeeded
          /\ run_result # None =>
                /\ Len(commands) = Succeeded + 1
                /\ Unwrap(run_result).status = "err"
                /\ pc = "done"
                /\ todo_errors = <<>>
          /\ pc = "eat_file_header" => Succeeded = 4)
    /\ [][ /\ commands' # commands =>
                /\ run_result = None
                /\ Len(commands') = Len(commands) + 1
           /\ run_result # None => commands' = commands /\ pc' = pc ]_vars

\* merge-base fails: three commands were issued, the third for the ref
\* upstream/dev, and the run has returned the error
C17_Witness ==
    /\ Len(commands) = 3
    /\ commands[3] = GitMergeBase(Upstream \o <<"/", "d", "e", "v">>)
    /\ run_result = Some(Err("command failed"))
    /\ pc = "done"
    /\ fork_point = None
    /\ diff = None

\* ---- claims about whole diff texts

TargetPrefix == <<"+", "+", "+", " ", "b", "/">>

\* the path of the last "+++ b/<path>" line among the first n lines of the text
LatestTarget(text, n) ==
    LET at == {i \in 1..n : StartsWith(text[i], TargetPrefix)}
    IN  SliceFrom(text[CHOOSE i \in at : \A j \in at : j <= i], Len(TargetPrefix))

\* C22: the hunk read_hunk builds has as file the path of the last
\* "+++ b/<path>" line before the hunk's header in the diff text; the hunk
\* keeps it until it is returned, the findings of its added lines carry it,
\* and the active path changes only where a file header's target line is
\* read, which after a hunk happens only behind a "diff " line.
C22_HunkCarriesLatestPath ==
    /\ []((InHunk /\ lines.peeked = None) =>
            Unwrap(hunk).file
               = LatestTarget(Unwrap(diff), lines.taken - Len(hunk_source)))
    /\ [][ /\ (hunk # None /\ pc # "loop") =>
                 (hunk' # None /\ Unwrap(hunk').file = Unwrap(hunk).file)
           /\ current_file' # current_file =>
                 /\ pc = "target_line"
                 /\ current_file' = LatestTarget(Unwrap(diff), lines'.taken)
           /\ (pc = "after" /\ pc' = "eat_file_header") =>
                 StartsWith(Unwrap(Unwrap(lines'.peeked)), <<"d", "i", "f", "f", " ">>)
           /\ \A i \in (Len(todo_errors) + 1)..Len(todo_errors') :
                 todo_errors'[i].file_path = HunkPath(Unwrap(hunk).file) ]_vars

\* the hunk of a second file, g, has been read after a hunk of the first,
\* f, gave its finding
C22_Witness ==
    /\ pc = "after"
    /\ Unwrap(hunk).file = <<"g">>
    /\ current_file = <<"g">>
    /\ todo_errors # <<>>
    /\ todo_errors[1].file_path = HunkPath(<<"f">>)

\* the findings of the added lines of a hunk of the file at path, from the
\* k-th line on; each line is classified as the hunk has it, without its
\* trailing whitespace
RECURSIVE OwedForAdded(_, _, _)
OwedForAdded(path, h, k) ==
    IF k > Len(h.added) THEN <<>>
    ELSE FromLine(config, HunkPath(path), TrimEnd(h.added[k]), h.add_start + k - 1).issues
         \o OwedForAdded(path, h, k + 1)

RECURSIVE OwedForHunks(_, _)
OwedForHunks(path, hunks) ==
    IF hunks = <<>> THEN <<>>
    ELSE OwedForAdded(path, hunks[1], 1) \o OwedForHunks(path, SubSeq(hunks, 2, Len(hunks)))

RECURSIVE OwedForPatch(_)
OwedForPatch(patch) ==
    IF patch = <<>> THEN <<>>
    ELSE OwedForHunks(patch[1].path, patch[1].hunks)
         \o OwedForPatch(SubSeq(patch, 2, Len(patch)))

\* the files and hunks the diff text was written from
Patch == CHOOSE patch \in Patches : PatchText(patch) = Unwrap(diff)

\* C24: the findings of the DiffScoped scan are those of from_line on every
\* added line of every hunk of the diff, in the order of the hunks, each
\* with the line's row in the target file and the hunk's path; removed
\* lines give no finding, and no added line is left out.
C24_EveryAddedLineClassified ==
    run_result # None => Unwrap(run_result) = Ok(OwedForPatch(Patch))

\* f has a replaced line and two added lines: the keyword on the removed
\* line gives nothing, the added lines at rows 5 and 9 give a finding each
C24_Witness ==
    /\ run_result # None
    /\ diff = Some(PatchText(<<[path |-> <<"f">>, hunks |-> <<ReplacedHunk, AddedHunk>>]>>))
    /\ Unwrap(run_result).status = "ok"
    /\ Len(Unwrap(run_result).value) = 2
    /\ Unwrap(run_result).value[1].row = 5
    /\ Unwrap(run_result).value[2].row = 9

\* C23: in a hunk body the removed lines are read before the added lines,
\* every line recorded as removed is a diff line that begins with "-" and
\* every line recorded as added one that begins with "+"; a line with
\* another first character, or an empty line, where a changed line is
\* declared is not taken as a changed line (and does not crash the parser).
C23_ChangedLinesCarryTheirSign ==
    /\ InHunk =>
         /\ Unwrap(hunk).added # <<>> =>
                Len(Unwrap(hunk).removed) = Declared(current_patch_remove)
         /\ \A i \in DOMAIN Unwrap(hunk).removed : StartsWith(RemovedSource(i), <<"-">>)
         /\ \A i \in DOMAIN Unwrap(hunk).added : StartsWith(AddedSource(i), <<"+">>)
    /\ run_result # Some(Panicked("line[1..]"))

\* the name of the remote a line of `git remote -v` is about: the trimmed
\* line up to its first whitespace
RECURSIVE UpToWhitespace(_)
UpToWhitespace(text) ==
    IF text = <<>> \/ IsWhitespace(text[1]) THEN <<>>
    ELSE <<text[1]>> \o UpToWhitespace(SubSeq(text, 2, Len(text)))

RemoteName(l) == UpToWhitespace(Trim(l))

\* the lines of a `git remote show` output that name the HEAD branch
HeadLines(output) == {i \in DOMAIN output : StartsWith(Trim(output[i]), HeadBranch)}

\* C25: the upstream remote is `upstream` when the remote list has a remote
\* whose name is exactly `upstream`, and `origin` otherwise (a remote that
\* only begins with `upstream`, like `upstream2`, does not count); the
\* branch is the text behind `HEAD branch: ` in the remote-show output and
\* `master` when no line has it; the fork point is computed against
\* <remote>/<branch>.
C25_UpstreamByExactName ==
    /\ remote # None =>
          \A output \in RemoteOutputs :
            RemoteOf(output) = IF \E i \in DOMAIN output : RemoteName(output[i]) = Upstream
                               THEN Upstream ELSE Origin
    /\ remote_ref # None =>
          \A output \in ShowOutputs :
          IF HeadLines(output) = {} THEN BranchOf(output) = Master
          ELSE \E i \in HeadLines(output) :
                  /\ \A j \in HeadLines(output) : i <= j
                  /\ HeadBranch \o BranchOf(output) = Trim(output[i])
    /\ remote # None => Unwrap(remote) \in {RemoteOf(output) : output \in RemoteOutputs}
    /\ remote_ref # None =>
          \E output \in ShowOutputs :
              Unwrap(remote_ref) = Unwrap(remote) \o <<"/">> \o BranchOf(output)
    /\ Len(commands) >= 3 => commands[3] = GitMergeBase(Unwrap(remote_ref))

\* ---- claims about the lock of the shared findings

\* a worker stands at todo_errors.lock() and the lock is held: it waits
Waiting(w) == workers[w].pc = "lines" /\ mutex.holder # None

\* a worker holds the lock and has yet to tokenize and classify its line
Classifying(w) == workers[w].pc = "locked" /\ mutex.holder = Some(w)

\* C26: a worker holds the lock of the shared findings only to append
\* findings it has already computed; tokenizing and classifying a line go
\* on without the lock, so no worker waits on the lock while another worker
\* is still to classify its line.
C26_LockOnlyToAppend ==
    \A w \in Workers : \A v \in Workers \ {w} : ~(Classifying(w) /\ Waiting(v))

\* a worker's tracker has panicked on an unbalanced Pop or Restore
TrackerViolation == \E w \in Workers : workers[w].site = Some("process_ops_for_line")

\* C28: a scope-stack violation raised while a worker processes a file is
\* the end of that file only: the shared findings stay usable (the mutex is
\* not poisoned), every other worker can still take the lock and append the
\* findings of its file, and the scan returns the findings appended before
\* and after the violation.
C28_ViolationStaysInItsFile ==
    /\ TrackerViolation => ~mutex.poisoned
    /\ \A w \in Workers : workers[w].site # Some("lock")
    /\ (TrackerViolation /\ walk_result # None) => walk_result = Ok(shared_todo_errors)

\* C27: for every number of CPUs from 1 up, the size of the worker pool,
\* the number of CPUs minus 2, is a count of at least one worker: the
\* subtraction neither panics nor wraps around to a huge value.
C27_PoolSizeWellDefined ==
    num_threads # None =>
        /\ Unwrap(num_threads).status = "ok"
        /\ Unwrap(num_threads).value \in 1..MaxCpus

\* ---- claims about the lines of a comment

\* the findings of the lines of a file with the given rows, in the order of
\* the rows, each line cut to the span and classified under its row
RECURSIVE OwedForRows(_, _, _)
OwedForRows(k, span, rows) ==
    IF rows = {} THEN <<>>
    ELSE LET r == CHOOSE r \in rows : \A q \in rows : r <= q
         IN  FromLine(config, EntryPath(k),
                      CommentLine(Unwrap(tree[k].contents), span, r), r).issues
             \o OwedForRows(k, span, rows \ {r})

\* the findings of a comment span of the k-th file: those of its lines that
\* are not blank once trimmed
OwedForSpan(k, span) ==
    OwedForRows(k, span,
                {r \in DOMAIN Unwrap(tree[k].contents) :
                    Trim(CommentLine(Unwrap(tree[k].contents), span, r)) # <<>>})

RECURSIVE OwedForSpans(_, _)
OwedForSpans(k, spans) ==
    IF spans = <<>> THEN <<>>
    ELSE OwedForSpan(k, spans[1]) \o OwedForSpans(k, SubSeq(spans, 2, Len(spans)))

\* C29: from_comment splits a comment span into its lines, drops the lines
\* that are empty once trimmed and classifies every other line with
\* from_line under the 1-indexed number the line has in the file (not its
\* index within the comment); the findings are those of the lines, in line
\* order.
C29_CommentLinesUnderFileRows ==
    [][ \A w \in Workers :
          (workers[w].pc = "locked" /\ workers'[w] # workers[w] /\ workers'[w].pc # "dead") =>
              \E overflow_checks \in BOOLEAN :
                  shared_todo_errors' =
                      shared_todo_errors
                          \o OwedForSpans(workers[w].entry,
                                          LineTracker(workers[w], overflow_checks).comments) ]_vars

\* the comment of lines 2 to 4 of MultilineSource has given its findings,
\* under the rows 2 and 4
C29_Witness ==
    /\ tree = <<MultilineSource>>
    /\ Len(shared_todo_errors) = 2
    /\ shared_todo_errors[1].row = 2
    /\ shared_todo_errors[2].row = 4
    /\ shared_todo_errors[2].tracking_id # None

\* ---- claims about the order of the spans and about what an event leaves
\* ---- alone

\* the absolute offset of the last pair the loop has taken on this line
Here == original_line.start + (IF op = None THEN 0 ELSE Unwrap(op).off)

C32_EventsLeaveTheRestAlone ==
    [][ op' # None =>
          /\ LastOp.kind \in {"Clear", "Restore", "Noop"} =>
                /\ comments' = comments
                /\ comment_level' = comment_level
                /\ current_comment_start' = current_comment_start
          /\ LastOp.kind = "Noop" =>
                /\ scopes_stack' = scopes_stack
                /\ cleared_scopes_stack' = cleared_scopes_stack
                /\ ~tracker_panicked'
          /\ (LastOp.kind = "Push" /\ ~IsComment(LastOp.scope)) =>
                /\ scopes_stack' = Append(scopes_stack, LastOp.scope)
                /\ cleared_scopes_stack' = cleared_scopes_stack
                /\ comments' = comments
                /\ comment_level' = comment_level
                /\ current_comment_start' = current_comment_start
                /\ ~tracker_panicked'
          /\ original_line' = original_line
          /\ ApplyOp(Tracker, LastOp, original_line.start, TRUE).original = Tracker.original
      ]_vars

\* a Clear has moved the open comment's scope to the cleared stack: the
\* level and the recorded start are as before
C32_Witness ==
    /\ op # None
    /\ Unwrap(op).kind = "Clear"
    /\ Unwrap(op).amount = [all |-> TRUE]
    /\ ~tracker_panicked
    /\ comment_level = 1
    /\ current_comment_start = Some(0)
    /\ scopes_stack = <<>>
    /\ cleared_scopes_stack = << << <<"comment", "block">> >> >>

\* ---- claims about a comment that is open at the end of its file

\* the tracker of the k-th file after its first r lines
RECURSIVE TrackerAfter(_, _)
TrackerAfter(k, r) ==
    IF r = 0 THEN NewStack(FileLen(Unwrap(tree[k].contents)))
    ELSE ProcessOpsForLine(TrackerAfter(k, r - 1), Unwrap(tree[k].contents)[r].ops,
                           LineStart(Unwrap(tree[k].contents), r), TRUE)

\* the finding lies in the k-th file, in a comment that is open at the end
\* of the file
InOpenComment(k, found) ==
    /\ found.file_path = EntryPath(k)
    /\ LET t == TrackerAfter(k, Len(Unwrap(tree[k].contents)))
       IN  /\ ~t.panicked
           /\ t.comment_level > 0
           /\ LineStart(Unwrap(tree[k].contents), found.row) + found.col - 1
                 >= Unwrap(t.current_comment_start)

\* C33: a comment that is still open after the last line of its file is
\* never emitted, so the CommentAware scan has no finding for a marker
\* inside it; the tracker goes with the file: a thread between two files
\* holds none, and every file starts with a new tracker, at level 0 and
\* with both stacks empty.
C33_OpenCommentIsDropped ==
    /\ [](\A i \in DOMAIN shared_todo_errors : \A k \in DOMAIN tree :
            ~InOpenComment(k, shared_todo_errors[i]))
    /\ []((walk_result # None /\ walk_result.status = "ok") =>
            \A i \in DOMAIN walk_result.value : \A k \in DOMAIN tree :
                ~InOpenComment(k, walk_result.value[i]))
    /\ [](\A w \in Workers : workers[w].pc = "idle" => workers[w].stack = None)
    /\ [][ \A w \in Workers :
             (workers[w].pc = "idle" /\ workers'[w].pc = "lines") =>
                 /\ workers'[w].stack # None
                 /\ Unwrap(workers'[w].stack).comment_level = 0
                 /\ Unwrap(workers'[w].stack).current_comment_start = None
                 /\ Unwrap(workers'[w].stack).scopes_stack = <<>>
                 /\ Unwrap(workers'[w].stack).cleared_scopes_stack = <<>>
                 /\ Unwrap(workers'[w].stack).original
                       = FileLen(Unwrap(tree[workers'[w].entry].contents)) ]_vars

\* the scan of a file that ends inside a comment holding a forbidden
\* keyword, and of a second file, is over: the first file gave the finding
\* of its closed comment only, the second file its own
C33_Witness ==
    /\ tree = <<OpenEndedSource, UntrackedSource>>
    /\ walk_result # None
    /\ walk_result.status = "ok"
    /\ Len(walk_result.value) = 2
    /\ \A i \in 1..2 : walk_result.value[i].row = 1

\* ---- claims about the end of the parse loop

\* the lines of the text that have been consumed: those the iterator has
\* handed out, less the one a peek() holds back
Consumed(l) == l.taken - (IF l.peeked # None /\ Unwrap(l.peeked) # None THEN 1 ELSE 0)

\* what is left to do: the lines not yet consumed of a text of at most
\* MaxDiffLines lines, and the peek behind a hunk body
Remaining(l, at) == 2 * (MaxDiffLines - Consumed(l)) + (IF at = "after" THEN 1 ELSE 0)

\* C34: for every finite diff text the loop of process_spans comes to an
\* end.  No line is ever handed back; at the top of the loop the run ends
\* with Ok exactly when no unread line remains, and otherwise read_hunk
\* consumes a line (its header) before anything else; every step either
\* ends the run or leaves less to do, and a run that has not ended stands
\* at a step of the parser that the iterator's next answer lets it take, so
\* the loop makes at most as many iterations as the text has lines.
C34_ParseLoopTerminates ==
    /\ [](Consumed(lines) \in 0..MaxDiffLines)
    /\ [](run_result = None =>
            /\ pc \in {"eat_file_header", "target_line", "loop", "removed", "added", "after"}
            /\ Upcoming(AllLines) # {}
            /\ pc \in {"removed", "added", "after"} => hunk # None)
    /\ [][ /\ Consumed(lines') >= Consumed(lines)
           /\ lines.eof => lines'.eof
           /\ run_result' = None => Remaining(lines', pc') < Remaining(lines, pc)
           /\ pc = "loop" =>
                IF lines'.eof /\ Consumed(lines') = Consumed(lines)
                THEN run_result' = Some(Ok(todo_errors))
                ELSE /\ Consumed(lines') = Consumed(lines) + 1
                     /\ run_result' # Some(Ok(todo_errors))
         ]_vars

\* a text of MaxDiffLines lines has been read to its end by several turns
\* of the loop
C34_Witness ==
    /\ run_result # None
    /\ Unwrap(run_result).status = "ok"
    /\ lines.eof
    /\ lines.taken = MaxDiffLines
    /\ Len(hunk_source) = 2

\* C35: eat_file_header returns an error when the text ends before a line
\* that starts with "--- " or "+++ ".  So UnifiedDiffParser::new fails on
\* an empty diff text, and when the last hunk is followed by a "diff "
\* section without such lines read_hunk returns the error: the hunk it had
\* read is not returned, its added lines are not classified, and the run
\* ends with the error.
C35_NoFileHeaderIsError ==
    /\ [][ (pc = "eat_file_header" /\ lines'.eof) =>
              /\ pc' = "done"
              /\ run_result' = Some(Err("next line exists"))
              /\ todo_errors' = todo_errors ]_vars
    /\ []((run_result # None /\ lines.taken = 0) =>
              run_result = Some(Err("next line exists")))

\* the text "--- a/f / +++ b/f / @@ -1,0 +5 @@ / +t  / diff g" has been
\* read: the hunk with the forbidden keyword on row 5 is dropped
C35_Witness ==
    /\ run_result = Some(Err("next line exists"))
    /\ lines.taken = 5
    /\ hunk # None
    /\ Unwrap(hunk).added = <<[line |-> <<"t">>, row |-> 5]>>
    /\ todo_errors = <<>>

\* ---- claims about the order of the findings of a file

\* any two findings of one file stand in the list in the order of their rows
RowsInOrder(list) ==
    \A i \in DOMAIN list : \A j \in DOMAIN list :
        (i < j /\ list[i].file_path = list[j].file_path) => list[i].row <= list[j].row

\* C36: in the FullTree scan the findings of different files may
\* interleave, but under every interleaving of the workers any two findings
\* of the same file stand in the list, and in the result, in non-decreasing
\* row order.
C36_RowsOfAFileInOrder ==
    /\ RowsInOrder(shared_todo_errors)
    /\ (walk_result # None /\ walk_result.status = "ok") => RowsInOrder(walk_result.value)

\* two files of two lines each, scanned by two workers in turns: the result
\* has the first rows of both files before the second row of the first
C36_Witness ==
    /\ tree = <<OpenEndedSource, OpenEndedSource>>
    /\ walk_result # None
    /\ walk_result.status = "ok"
    /\ Len(walk_result.value) = 4
    /\ walk_result.value[1].file_path = EntryPath(1)
    /\ walk_result.value[2].file_path = EntryPath(2)
    /\ walk_result.value[3].file_path = EntryPath(1)
    /\ walk_result.value[3].row = 2

====
